---------------------------- MODULE Spec2Model ----------------------------
(***************************************************************************)
(* State-machine model of the voting core of WinDyAlphA/voters_raw:        *)
(* EC-ElGamal / exponential ElGamal encryption, ECDSA / DSA ballot         *)
(* signatures, and the VotingSystem engine (backend/voting.py).            *)
(*                                                                         *)
(* The cryptographic groups are scaled down so that TLC can enumerate      *)
(* them: the Montgomery curve v^2 = u^3 + 4u^2 + u over F_103 has a        *)
(* subgroup of prime order 23 generated by the point of abscissa 9 (the    *)
(* code's curve is Curve25519 with the same base abscissa), and the        *)
(* finite-field group is the subgroup of order 11 of (Z/23)* generated by  *)
(* 2 (the code's group is RFC 5114 MODP group 24).  SHA-256 and            *)
(* HMAC-SHA-256 are scaled to a one-byte digest.  Every other constant     *)
(* (10 voters, 5 candidates, the decode limit of 10) is the code's.        *)
(***************************************************************************)
EXTENDS Integers, Sequences, FiniteSets, TLC

(***************************************************************************)
(* Group parameters (scaled).                                              *)
(***************************************************************************)
EC_P == 103         \* ecelgamal.py: p = 2**255 - 19
CurveA == 4         \* validate_point: a = 486662
ORDER == 23         \* ecelgamal.py / ecdsa.py: ORDER
BaseU == 9
BaseV == 49         \* mod_sqrt(BaseU^3 + a BaseU^2 + BaseU): the smaller root
PARAM_P == 23       \* elgamal.py / dsa.py: PARAM_P
PARAM_Q == 11       \* PARAM_Q, the order of PARAM_G
PARAM_G == 2
DigestMod == 256    \* SHA-256 digests are 32 bytes; here one byte

NUM_VOTERS == 10
NUM_CANDIDATES == 5
DecodeLimit == 10   \* ECEG_decrypt: for i in range(10)

(***************************************************************************)
(* crypto_utils.algebra                                                    *)
(***************************************************************************)
RECURSIVE pow(_, _, _)
pow(b, e, m) ==
    IF e = 0 THEN 1 % m
    ELSE LET h == pow(b, e \div 2, m)
             sq == (h * h) % m
         IN  IF e % 2 = 1 THEN (sq * b) % m ELSE sq

HasInverse(a, m) == \E b \in 1..(m - 1) : (a * b) % m = 1

\* mod_inv(a, m): the inverse of a modulo m (the caller checks HasInverse)
mod_inv(a, m) == CHOOSE b \in 1..(m - 1) : (a * b) % m = 1

RECURSIVE int_to_bytes(_)
int_to_bytes(n) ==
    IF n < 256 THEN <<n>> ELSE int_to_bytes(n \div 256) \o <<n % 256>>

RECURSIVE bytes_to_int(_)
bytes_to_int(bs) ==
    IF bs = <<>> THEN 0
    ELSE 256 * bytes_to_int(SubSeq(bs, 1, Len(bs) - 1)) + bs[Len(bs)]

RECURSIVE bit_length(_)
bit_length(n) == IF n = 0 THEN 0 ELSE 1 + bit_length(n \div 2)

(***************************************************************************)
(* crypto_utils.rfc7748: affine arithmetic on the Montgomery curve, with   *)
(* (1, 0) standing for the neutral element.                                *)
(***************************************************************************)
Neutral == <<1, 0>>
BasePoint == <<BaseU, BaseV>>

InvP == [a \in 1..(EC_P - 1) |-> mod_inv(a, EC_P)]

neg(P) == <<P[1], (EC_P - P[2]) % EC_P>>

add(P, Q) ==
    IF P = Neutral THEN Q
    ELSE IF Q = Neutral THEN P
    ELSE IF P[1] = Q[1] /\ (P[2] + Q[2]) % EC_P = 0 THEN Neutral
    ELSE LET l == IF P = Q
                  THEN ((3 * P[1] * P[1] + 2 * CurveA * P[1] + 1)
                          * InvP[(2 * P[2]) % EC_P]) % EC_P
                  ELSE (((Q[2] - P[2]) % EC_P)
                          * InvP[(Q[1] - P[1]) % EC_P]) % EC_P
             x3 == (l * l - CurveA - P[1] - Q[1]) % EC_P
             y3 == (l * (P[1] - x3) - P[2]) % EC_P
         IN  <<x3, y3>>

RECURSIVE mult(_, _)
mult(k, P) ==
    IF k = 0 THEN Neutral
    ELSE LET h == mult(k \div 2, P)
             d == add(h, h)
         IN  IF k % 2 = 1 THEN add(d, P) ELSE d

\* the subgroup generated by the base point, indexed by the scalar
GTable == [k \in 0..(ORDER - 1) |-> mult(k, BasePoint)]
GroupPoints == {GTable[k] : k \in 0..(ORDER - 1)}

(***************************************************************************)
(* ecelgamal.py / ecdsa.py: validate_point                                 *)
(***************************************************************************)
validate_point(x, y) ==
    LET left == (y * y) % EC_P
        right == (x * x * x + CurveA * x * x + x) % EC_P
    IN  left = right

(***************************************************************************)
(* Results of calls: a value, or the exception the call raises.            *)
(***************************************************************************)
Ok(v) == [ok |-> TRUE, val |-> v]
Err(e) == [ok |-> FALSE, err |-> e]

(***************************************************************************)
(* backend/ecelgamal.py.  The nonce k that ECEG_encrypt draws with         *)
(* randbelow(ORDER) is a parameter of the operator.                        *)
(***************************************************************************)
ECNonces == 0..(ORDER - 1)              \* k = randbelow(ORDER)
ECPrivateKeys == 1..(ORDER - 2)         \* randbelow(ORDER-2) + 1

ECEG_generate_keys(x) == <<x, mult(x, BasePoint)>>

ECEG_encrypt(message, public_key, k) ==
    IF message \notin {0, 1} THEN Err("Le message doit etre 0 ou 1")
    ELSE LET C1 == mult(k, BasePoint)
             M == IF message = 0 THEN Neutral ELSE BasePoint
             S == mult(k, public_key)
             C2 == add(M, S)
         IN  Ok(<<C1, C2>>)

\* for i in range(10): if current == M: return i; current = current + base
RECURSIVE CountBase(_, _, _, _)
CountBase(M, base, i, current) ==
    IF i >= DecodeLimit THEN -1
    ELSE IF current = M THEN i
    ELSE CountBase(M, base, i + 1, add(current, base))

\* the second half of ECEG_decrypt: from the point M to the count
ECEG_decode(M) ==
    IF M = Neutral THEN Ok(0)
    ELSE IF M = BasePoint THEN Ok(1)
    ELSE IF M = neg(BasePoint) THEN Ok(1)
    ELSE LET pos == CountBase(M, BasePoint, 0, Neutral)
         IN  IF pos >= 0 THEN Ok(pos)
             ELSE LET ngt == CountBase(M, neg(BasePoint), 0, Neutral)
                  IN  IF ngt >= 0 THEN Ok(ngt)
                      ELSE Err("Impossible de dechiffrer le point")

\* S = mult(private_key, C1); neg_S = (S[0], -S[1] % p); M = add(C2, neg_S)
ECEG_decrypt(private_key, C1, C2) ==
    ECEG_decode(add(C2, neg(mult(private_key, C1))))

(***************************************************************************)
(* src/ecelgamal.py, the earlier revision of the same module: it draws k   *)
(* in [1, ORDER-1], validates the points it is given and searches up to    *)
(* ORDER.                                                                  *)
(***************************************************************************)
RootECNonces == 1..(ORDER - 1)          \* k = randbelow(ORDER-1) + 1
RootECPrivateKeys == 1..(ORDER - 1)     \* randbelow(ORDER-1) + 1

EGencode(message) ==
    IF message \notin {0, 1} THEN Err("Le message doit etre 0 ou 1")
    ELSE IF message = 0 THEN Ok(Neutral)
    ELSE IF ~validate_point(BaseU, BaseV) THEN Err("Point de base invalide")
    ELSE Ok(BasePoint)

Root_ECEG_encrypt(message, public_key, k) ==
    IF ~validate_point(public_key[1], public_key[2])
    THEN Err("Cle publique invalide")
    ELSE LET enc == EGencode(message)
         IN  IF ~enc.ok THEN enc
             ELSE LET M == enc.val
                      C1 == mult(k, BasePoint)
                      S == mult(k, public_key)
                      C2 == add(M, S)
                  IN  Ok(<<C1, C2>>)

\* while count < ORDER: if point == M: return count; point += base; count += 1
RECURSIVE RootCount(_, _, _)
RootCount(M, count, point) ==
    IF count >= ORDER THEN -1
    ELSE IF point = M THEN count
    ELSE RootCount(M, count + 1, add(point, BasePoint))

\* the second half of ECEG_decrypt: from the point M to the count
Root_ECEG_decode(M) ==
    IF validate_point(M[1], M[2]) /\ M = Neutral THEN Ok(0)
    ELSE IF validate_point(M[1], M[2]) /\ M = BasePoint THEN Ok(1)
    ELSE IF validate_point(M[1], M[2]) /\ M = neg(BasePoint) THEN Ok(1)
    ELSE LET count == RootCount(M, 0, Neutral)
         IN  IF count >= 0 THEN Ok(count)
             ELSE Err("Dechiffrement invalide")

Root_ECEG_decrypt(private_key, C1, C2) ==
    IF ~validate_point(C1[1], C1[2]) \/ ~validate_point(C2[1], C2[2])
    THEN Err("Points chiffres invalides")
    ELSE IF ~(0 < private_key /\ private_key < ORDER)
    THEN Err("Cle privee invalide")
    ELSE Root_ECEG_decode(add(C2, neg(mult(private_key, C1))))

(***************************************************************************)
(* backend/elgamal.py: exponential ("additive") ElGamal.                   *)
(***************************************************************************)
FFNonces == 1..(PARAM_Q - 2)            \* k = randbelow(PARAM_Q-2) + 1
FFPrivateKeys == 1..(PARAM_Q - 2)       \* randbelow(PARAM_Q-2) + 1

validate_params ==
    /\ ~(PARAM_P < 2 \/ PARAM_Q < 2)
    /\ ~(PARAM_G <= 1 \/ PARAM_G >= PARAM_P)
    /\ pow(PARAM_G, PARAM_Q, PARAM_P) = 1

EG_generate_keys(x) == <<x, pow(PARAM_G, x, PARAM_P)>>

\* EGA_encrypt with the public key not raised to the nonce
EGA_encrypt_KeyNotRaised(message, public_key, k) ==
    IF message \notin {0, 1} THEN Err("Message invalide")
    ELSE Ok(<<pow(PARAM_G, k, PARAM_P),
              (pow(PARAM_G, message, PARAM_P) * public_key) % PARAM_P>>)

EGA_encrypt(message, public_key, k) ==
    IF ~validate_params THEN Err("Parametres du groupe invalides")
    ELSE IF message \notin {0, 1} THEN Err("Message invalide")
    ELSE LET encoded == pow(PARAM_G, message, PARAM_P)
             c1 == pow(PARAM_G, k, PARAM_P)
             c2 == (encoded * pow(public_key, k, PARAM_P)) % PARAM_P
         IN  Ok(<<c1, c2>>)

\* while temp != m and message < PARAM_Q: message += 1; temp = pow(g, message, p)
RECURSIVE EGA_search(_, _, _)
EGA_search(m, message, temp) ==
    IF temp # m /\ message < PARAM_Q
    THEN EGA_search(m, message + 1, pow(PARAM_G, message + 1, PARAM_P))
    ELSE <<message, temp>>

EGA_decrypt(private_key, c1, c2) ==
    IF ~validate_params THEN Err("Parametres du groupe invalides")
    ELSE IF ~(0 < private_key /\ private_key < PARAM_Q)
    THEN Err("Cle privee invalide")
    ELSE LET s == pow(c1, private_key, PARAM_P)
         IN  IF ~HasInverse(s, PARAM_P) THEN Err("NoInverse")
             ELSE LET s_inv == mod_inv(s, PARAM_P)
                      m == (c2 * s_inv) % PARAM_P
                      found == EGA_search(m, 0, 1)
                  IN  IF found[2] # m THEN Err("Dechiffrement invalide")
                      ELSE Ok(found[1])

\* EG_encrypt(message, public_key), k being its draw randbelow(PARAM_Q-2) + 1
EG_encrypt(message, public_key, k) ==
    IF ~validate_params THEN Err("Parametres du groupe invalides")
    ELSE IF ~(0 < message /\ message < PARAM_P) THEN Err("Message invalide")
    ELSE LET r == pow(PARAM_G, k, PARAM_P)
             c == (message * pow(public_key, k, PARAM_P)) % PARAM_P
         IN  Ok(<<r, c>>)

\* EGM_decrypt as it would be if it multiplied by s instead of its inverse
EGM_decrypt_NoInverse(private_key, c1, c2) ==
    IF ~validate_params THEN Err("Parametres du groupe invalides")
    ELSE IF ~(0 < private_key /\ private_key < PARAM_Q)
    THEN Err("Cle privee invalide")
    ELSE Ok((c2 * pow(c1, private_key, PARAM_P)) % PARAM_P)

EGM_decrypt(private_key, c1, c2) ==
    IF ~validate_params THEN Err("Parametres du groupe invalides")
    ELSE IF ~(0 < private_key /\ private_key < PARAM_Q)
    THEN Err("Cle privee invalide")
    ELSE LET s == pow(c1, private_key, PARAM_P)
         IN  IF ~HasInverse(s, PARAM_P) THEN Err("NoInverse")
             ELSE Ok((c2 * mod_inv(s, PARAM_P)) % PARAM_P)


(***************************************************************************)
(* Crypto.Hash (external library), scaled to one byte: SHA256 as a         *)
(* deterministic function of the message bytes, HMAC as the hash of the    *)
(* key followed by the data.                                               *)
(***************************************************************************)
RECURSIVE HashFold(_, _)
HashFold(h, bs) ==
    IF bs = <<>> THEN h
    ELSE HashFold((h * 37 + (h \div 16) + Head(bs) + 1) % DigestMod, Tail(bs))

SHA256(bs) == HashFold(7, bs)

HMAC(key, data) == <<SHA256(key \o <<92>> \o data)>>

\* dsa.py / ecdsa.py: H(message) = int(SHA256(message).hexdigest(), 16)
H(message) == SHA256(message)

\* dsa.py / ecdsa.py: bits2int(bits, qlen)
bits2int(bits, qlen) ==
    LET ret == bytes_to_int(bits)
    IN  IF Len(bits) * 8 > qlen
        THEN ret \div (2 ^ (Len(bits) * 8 - qlen))
        ELSE ret

\* dsa.py / ecdsa.py: bits2octets(bits, q, qlen)
bits2octets(bits, q, qlen) ==
    LET z1 == bits2int(bits, qlen)
        z2 == z1 % q
    IN  int_to_bytes(z2)

\* step 9 of the nonce derivation: generate T until 0 < nonce < q
RECURSIVE FillT(_, _, _, _)
FillT(k, v, t, qlen) ==
    IF Len(t) * 8 < qlen
    THEN LET v2 == HMAC(k, v) IN FillT(k, v2, t \o v2, qlen)
    ELSE <<v, t>>

RECURSIVE NonceLoop(_, _, _, _)
NonceLoop(k, v, q, qlen) ==
    LET vt == FillT(k, v, <<>>, qlen)
        nonce == bits2int(vt[2], qlen)
    IN  IF 0 < nonce /\ nonce < q THEN nonce
        ELSE LET k2 == HMAC(k, vt[1] \o <<0>>)
                 v2 == HMAC(k2, vt[1])
             IN  NonceLoop(k2, v2, q, qlen)

\* the two byte strings the derivation feeds to HMAC beside V:
\* x = int_to_bytes(private_key) and h1_bytes = int_to_bytes(h1)
nonce_x(private_key) == int_to_bytes(private_key)

nonce_h1_bytes(message) == int_to_bytes(H(message))

\* DSA_generate_nonce / ECDSA_generate_nonce (the two are the same text)
generate_nonce(private_key, message, q) ==
    LET h1 == H(message)
        qlen == bit_length(q)
        x == nonce_x(private_key)
        h1_bytes == nonce_h1_bytes(message)
        v0 == <<1>>
        k0 == <<0>>
        k1 == HMAC(k0, v0 \o <<0>> \o x \o h1_bytes)
        v1 == HMAC(k1, v0)
        k2 == HMAC(k1, v1 \o <<1>> \o x \o h1_bytes)
        v2 == HMAC(k2, v1)
    IN  NonceLoop(k2, v2, q, qlen)

DSA_generate_nonce(private_key, message) ==
    generate_nonce(private_key, message, PARAM_Q)

ECDSA_generate_nonce(private_key, message) ==
    generate_nonce(private_key, message, ORDER)

(***************************************************************************)
(* Signing.  The loop of DSA_sign / ECDSA_sign derives the same nonce on   *)
(* every turn, so a turn that ends in "continue" is followed by the same   *)
(* turn: the call does not return ("hang").                                *)
(***************************************************************************)
Signed(r, s) == [st |-> "ok", sig |-> <<r, s>>]
SignHangs == [st |-> "hang"]
SignRaises(e) == [st |-> "error", err |-> e]

ECDSAPrivateKeys == 1..(ORDER - 2)      \* randbelow(ORDER-2) + 1
DSAPrivateKeys == 1..(PARAM_Q - 2)      \* randbelow(q-2) + 1

ECDSA_generate_keys(x) == <<x, mult(x, BasePoint)>>
DSA_generate_keys(x) == <<x, pow(PARAM_G, x, PARAM_P)>>

\* a turn of ECDSA_sign that leaves the hash out of s
ECDSA_sign_turn_NoHash(h, private_key, k) ==
    LET r == mult(k, BasePoint)[1] % ORDER
        s == (mod_inv(k, ORDER) * (private_key * r)) % ORDER
    IN  IF r = 0 \/ s = 0 THEN SignHangs ELSE Signed(r, s)

\* one turn of the loop of ECDSA_sign, k being the nonce it derived
ECDSA_sign_turn(h, private_key, k) ==
    LET r == mult(k, BasePoint)[1] % ORDER
        s == (mod_inv(k, ORDER) * (h + private_key * r)) % ORDER
    IN  IF r = 0 THEN SignHangs
        ELSE IF s = 0 THEN SignHangs
        ELSE Signed(r, s)

ECDSA_sign(message, private_key) ==
    IF ~(0 < private_key /\ private_key < ORDER)
    THEN SignRaises("Cle privee invalide")
    ELSE ECDSA_sign_turn(H(message), private_key,
                         ECDSA_generate_nonce(private_key, message))

ECDSA_verify(message, signature, public_key) ==
    IF ~validate_point(public_key[1], public_key[2])
    THEN Err("Cle publique invalide")
    ELSE LET r == signature[1]
             s == signature[2]
         IN  IF ~(0 < r /\ r < ORDER /\ 0 < s /\ s < ORDER)
             THEN Err("Signature invalide")
             ELSE LET w == mod_inv(s, ORDER)
                      h == H(message)
                      u1 == (h * w) % ORDER
                      u2 == (r * w) % ORDER
                      point1 == mult(u1, BasePoint)
                      point2 == mult(u2, public_key)
                      R == add(point1, point2)
                  IN  Ok(R[1] % ORDER = r)

\* a turn of DSA_sign that multiplies by the nonce instead of its inverse
DSA_sign_turn_NonceNotInverted(h, private_key, k) ==
    LET r == pow(PARAM_G, k, PARAM_P) % PARAM_Q
        s == (k * (h + private_key * r)) % PARAM_Q
    IN  IF r = 0 \/ s = 0 THEN SignHangs ELSE Signed(r, s)

\* one turn of the loop of DSA_sign, k being the nonce it derived
DSA_sign_turn(h, private_key, k) ==
    LET r == pow(PARAM_G, k, PARAM_P) % PARAM_Q
        s == (mod_inv(k, PARAM_Q) * (h + private_key * r)) % PARAM_Q
    IN  IF r = 0 THEN SignHangs
        ELSE IF s = 0 THEN SignHangs
        ELSE Signed(r, s)

DSA_sign(message, private_key) ==
    IF ~(0 < private_key /\ private_key < PARAM_Q)
    THEN SignRaises("Cle privee invalide")
    ELSE DSA_sign_turn(H(message), private_key,
                       DSA_generate_nonce(private_key, message))

DSA_verify(message, signature, public_key) ==
    IF ~validate_params THEN Err("Parametres DSA invalides")
    ELSE LET r == signature[1]
             s == signature[2]
         IN  IF ~(0 < r /\ r < PARAM_Q /\ 0 < s /\ s < PARAM_Q)
             THEN Err("Signature invalide")
             ELSE IF ~(0 < public_key /\ public_key < PARAM_P)
             THEN Err("Cle publique invalide")
             ELSE LET h == H(message) % PARAM_Q
                      w == mod_inv(s, PARAM_Q)
                      u1 == (h * w) % PARAM_Q
                      u2 == (r * w) % PARAM_Q
                      v == ((pow(PARAM_G, u1, PARAM_P)
                               * pow(public_key, u2, PARAM_P)) % PARAM_P)
                             % PARAM_Q
                  IN  Ok(v = r)


(***************************************************************************)
(* backend/voting.py: the VotingSystem engine.  An engine is the record of *)
(* its fields; a ballot is the record of the Ballot dataclass.  The        *)
(* engine is modelled with use_multiplicative = False, its default and the *)
(* only value the API passes.                                              *)
(***************************************************************************)
Voters == 0..(NUM_VOTERS - 1)
Slots == 1..NUM_CANDIDATES

RECURSIVE SumSeq(_)
SumSeq(q) == IF q = <<>> THEN 0 ELSE Head(q) + SumSeq(Tail(q))

\* VotingSystem.__init__: election_draw and voter_draws are the outcomes of
\* the randbelow calls of the key generators
VotingSystem(use_ec, election_draw, voter_draws) ==
    LET ek == IF use_ec THEN ECEG_generate_keys(election_draw)
              ELSE EG_generate_keys(election_draw)
    IN  [use_ec |-> use_ec,
         priv_key |-> ek[1],
         pub_key |-> ek[2],
         voter_keys |->
            [i \in Voters |->
                LET kp == IF use_ec THEN ECDSA_generate_keys(voter_draws[i])
                          ELSE DSA_generate_keys(voter_draws[i])
                IN  [private |-> kp[1], public |-> kp[2]]]]

create_vote(candidate) ==
    IF ~(0 <= candidate /\ candidate < NUM_CANDIDATES)
    THEN Err("Candidat invalide")
    ELSE LET vote == [i \in Slots |-> IF i - 1 = candidate THEN 1 ELSE 0]
         IN  IF SumSeq(vote) # 1 THEN Err("Vote invalide") ELSE Ok(vote)

\* the message that encrypt_vote signs and verify_ballot rebuilds
RECURSIVE BallotMessage(_, _)
BallotMessage(use_ec, encrypted_votes) ==
    IF encrypted_votes = <<>> THEN <<>>
    ELSE LET encrypted == Head(encrypted_votes)
             piece == IF use_ec
                      THEN int_to_bytes(encrypted[1][1])
                             \o int_to_bytes(encrypted[1][2])
                             \o int_to_bytes(encrypted[2][1])
                             \o int_to_bytes(encrypted[2][2])
                      ELSE int_to_bytes(encrypted[1])
                             \o int_to_bytes(encrypted[2])
         IN  piece \o BallotMessage(use_ec, Tail(encrypted_votes))

Ballot(encrypted_votes, signature, voter_id) ==
    [encrypted_votes |-> encrypted_votes,
     signature |-> signature,
     voter_id |-> voter_id]

\* the return of encrypt_vote, sg being what the signing call did
SignedBallot(encrypted_votes, voter_id, sg) ==
    IF sg.st = "ok" THEN Ok(Ballot(encrypted_votes, sg.sig, voter_id))
    ELSE IF sg.st = "hang" THEN Err("does not return")
    ELSE Err(sg.err)

\* the signing half of encrypt_vote
SignVotes(self, encrypted_votes, message, voter_id) ==
    IF voter_id \notin DOMAIN self.voter_keys
    THEN Err("KeyError")
    ELSE SignedBallot(encrypted_votes, voter_id,
            IF self.use_ec
            THEN ECDSA_sign(message, self.voter_keys[voter_id].private)
            ELSE DSA_sign(message, self.voter_keys[voter_id].private))

\* encrypt_vote after its loop, encs[i] being what encrypting slot i did:
\* the first encryption that raised ends the call
EncryptedVotes(self, encs, voter_id) ==
    LET bad == {i \in DOMAIN encs : ~encs[i].ok}
    IN  IF bad # {}
        THEN encs[CHOOSE i \in bad : \A j \in bad : i <= j]
        ELSE SignVotes(self, [i \in DOMAIN encs |-> encs[i].val],
                       BallotMessage(self.use_ec,
                                     [i \in DOMAIN encs |-> encs[i].val]),
                       voter_id)

\* nonces[i] is the nonce drawn while encrypting vote_list[i]
encrypt_vote(self, vote_list, voter_id, nonces) ==
    IF SumSeq(vote_list) # 1
    THEN Err("Vote invalide: la somme doit etre egale a 1")
    ELSE EncryptedVotes(self,
            [i \in 1..Len(vote_list) |->
                IF self.use_ec
                THEN ECEG_encrypt(vote_list[i], self.pub_key, nonces[i])
                ELSE EGA_encrypt(vote_list[i], self.pub_key, nonces[i])],
            voter_id)

verify_ballot(self, ballot) ==
    LET message == BallotMessage(self.use_ec, ballot.encrypted_votes)
    IN  IF ballot.voter_id \notin DOMAIN self.voter_keys
        THEN Err("KeyError")
        ELSE LET pub_key == self.voter_keys[ballot.voter_id].public
             IN  IF self.use_ec
                 THEN ECDSA_verify(message, ballot.signature, pub_key)
                 ELSE DSA_verify(message, ballot.signature, pub_key)

\* one turn of the inner loop of combine_encrypted_votes
CombineSlot(use_ec, acc, ct) ==
    IF use_ec
    THEN IF acc[1] = Neutral
         THEN <<ct[1], ct[2]>>
         ELSE <<add(acc[1], ct[1]), add(acc[2], ct[2])>>
    ELSE <<(acc[1] * ct[1]) % PARAM_P, (acc[2] * ct[2]) % PARAM_P>>

\* the loop "for ballot in ballots: for i in range(NUM_CANDIDATES)"
RECURSIVE CombineFold(_, _, _)
CombineFold(use_ec, result, ballots) ==
    IF ballots = <<>> THEN Ok(result)
    ELSE LET ballot == Head(ballots)
         IN  IF Len(ballot.encrypted_votes) < NUM_CANDIDATES
             THEN Err("IndexError")
             ELSE CombineFold(use_ec,
                      [i \in Slots |->
                          CombineSlot(use_ec, result[i], ballot.encrypted_votes[i])],
                      Tail(ballots))

BadBallotError(voter_id) ==
    [ok |-> FALSE, err |-> "Signature invalide pour le votant",
     voter_id |-> voter_id]

\* combine_encrypted_votes after its verification loop, verdicts[i] being
\* what verify_ballot did on ballots[i]: the loop ends at the first ballot
\* whose verification raised or returned false
CombineVerified(self, ballots, verdicts) ==
    LET failing == {i \in 1..Len(ballots) : verdicts[i] # Ok(TRUE)}
    IN  IF failing # {}
        THEN LET i == CHOOSE i \in failing : \A j \in failing : i <= j
             IN  IF ~verdicts[i].ok THEN verdicts[i]
                 ELSE BadBallotError(ballots[i].voter_id)
        ELSE CombineFold(self.use_ec,
                 [i \in Slots |->
                     IF self.use_ec THEN <<Neutral, Neutral>> ELSE <<1, 1>>],
                 ballots)

combine_encrypted_votes(self, ballots) ==
    IF ballots = <<>> THEN Err("Aucun bulletin a combiner")
    ELSE CombineVerified(self, ballots,
            [i \in 1..Len(ballots) |-> verify_ballot(self, ballots[i])])

\* decrypt_result after its loop, decs[i] being what decrypting slot i did
CheckedResults(decs) ==
    LET bad == {i \in DOMAIN decs : ~decs[i].ok}
    IN  IF bad # {}
        THEN decs[CHOOSE i \in bad : \A j \in bad : i <= j]
        ELSE LET results == [i \in DOMAIN decs |-> decs[i].val]
             IN  IF SumSeq(results) # NUM_VOTERS
                 THEN Err("Nombre total de votes different du nombre de votants")
                 ELSE Ok(results)

decrypt_result(self, combined_votes) ==
    CheckedResults(
        [i \in 1..Len(combined_votes) |->
            IF self.use_ec
            THEN ECEG_decrypt(self.priv_key, combined_votes[i][1],
                              combined_votes[i][2])
            ELSE EGA_decrypt(self.priv_key, combined_votes[i][1],
                             combined_votes[i][2])])


(***************************************************************************)
(* Bounds of the model, and the random draws the code makes.               *)
(***************************************************************************)
MaxBallots == 2         \* ballots held by the caller of the engine
MaxSeed == 2            \* distinct outcomes of the key-generation draws
MaxNonceBase == 1       \* distinct outcomes of the encryption nonces

Seeds == 1..MaxSeed

\* the key draws of one engine construction: randbelow(n - 2) + 1
KeyDraw(seed, i, n) == ((5 * seed + 3 * i) % (n - 2)) + 1

VoterDraws(use_ec, seed) ==
    [i \in Voters |-> KeyDraw(seed, i + 1, IF use_ec THEN ORDER ELSE PARAM_Q)]

\* the nonces of one encrypt_vote call: slot i draws base + i - 1, taken in
\* [0, ORDER-1] (EC) or [1, PARAM_Q-2] (finite field)
NonceVector(use_ec, base) ==
    [i \in Slots |->
        IF use_ec THEN (base + i - 1) % ORDER
        ELSE ((base + i - 1) % (PARAM_Q - 2)) + 1]

NonceVectors(use_ec) == {NonceVector(use_ec, base) : base \in 0..MaxNonceBase}

\* the caller's inputs: the first and the last voter; the first candidate,
\* the last one, and the first number that is not a candidate
VoterChoices == {0, NUM_VOTERS - 1}
CandidateChoices == {0, NUM_CANDIDATES - 1, NUM_CANDIDATES}

RECURSIVE Perms(_)
Perms(S) ==
    IF S = {} THEN {<<>>}
    ELSE UNION {{<<x>> \o q : q \in Perms(S \ {x})} : x \in S}

Pick(q, order) == [j \in 1..Len(order) |-> q[order[j]]]

\* the number of ballots among those of `order` cast for each candidate
Counts(cast, order) ==
    [c \in Slots |-> Cardinality({j \in 1..Len(order) : cast[order[j]] = c - 1})]

(***************************************************************************)
(* backend/database.py: the tables of election.db.  A text is a sequence   *)
(* of characters; a TEXT column that holds JSON is the list the JSON       *)
(* denotes.                                                                *)
(***************************************************************************)
Digits == <<"0", "1", "2", "3", "4", "5", "6", "7", "8", "9",
            "a", "b", "c", "d", "e", "f">>

RECURSIVE ToText(_, _)
ToText(n, base) ==
    IF n < base THEN <<Digits[n + 1]>>
    ELSE ToText(n \div base, base) \o <<Digits[(n % base) + 1]>>

\* str(n) and hex(n)[2:] of a non-negative integer
str(n) == ToText(n, 10)
hex(n) == ToText(n, 16)

DigitValue(c) == CHOOSE v \in 0..15 : Digits[v + 1] = c

\* int(s) and int(s, 16) of a text whose digits are below the base
RECURSIVE int(_, _)
int(s, base) ==
    IF s = <<>> THEN 0
    ELSE base * int(SubSeq(s, 1, Len(s) - 1), base) + DigitValue(s[Len(s)])

\* the tables after init_database: no row but the default administrator
init_database ==
    [invitation_codes |-> <<>>,
     users |-> <<[id |-> 1, username |-> "admin", is_admin |-> TRUE]>>,
     elections |-> <<>>,
     ballots |-> <<>>]

NoCall == [op |-> "none"]
NoTally == [ok |-> FALSE, err |-> "no tally", of |-> <<>>]
NoScript == [name |-> "none"]

VARIABLES
    engine,     \* the VotingSystem that receives the calls
    other,      \* a VotingSystem built later for the same election
    ballots,    \* the ballots the caller holds, in casting order
    chosen,     \* chosen[i]: the candidate ballots[i] was created for
    tally,      \* the result of the last combine_encrypted_votes call
    script,     \* the locals of the script that is running, if one is
    ret,        \* the last call and what it returned
    db          \* the tables of election.db

vars == <<engine, other, ballots, chosen, tally, script, ret, db>>

Init ==
    /\ \E use_ec \in BOOLEAN, seed \in Seeds, oseed \in Seeds :
          /\ engine = VotingSystem(use_ec,
                         KeyDraw(seed, 0, IF use_ec THEN ORDER ELSE PARAM_Q),
                         VoterDraws(use_ec, seed))
          \* api.py builds a fresh VotingSystem per request and assigns it
          \* the election's keys
          /\ other = [VotingSystem(use_ec, 1, VoterDraws(use_ec, oseed))
                        EXCEPT !.priv_key = engine.priv_key,
                               !.pub_key = engine.pub_key]
    /\ ballots = <<>>
    /\ chosen = <<>>
    /\ tally = NoTally
    /\ script = NoScript
    /\ ret = NoCall
    /\ db = init_database

\* vote = create_vote(candidate); ballot = encrypt_vote(vote, voter_id)
CastBallot(self, vote, voter_id, nonces) ==
    IF vote.ok THEN encrypt_vote(self, vote.val, voter_id, nonces) ELSE vote

EncryptVote ==
    /\ Len(ballots) < MaxBallots
    /\ \E candidate \in CandidateChoices, voter_id \in VoterChoices,
          nonces \in NonceVectors(engine.use_ec) :
          /\ ret' = [op |-> "encrypt_vote", candidate |-> candidate,
                     voter_id |-> voter_id,
                     res |-> CastBallot(engine, create_vote(candidate),
                                        voter_id, nonces)]
          /\ ballots' = IF ret'.res.ok
                        THEN Append(ballots, ret'.res.val) ELSE ballots
          /\ chosen' = IF ret'.res.ok
                       THEN Append(chosen, candidate) ELSE chosen
    /\ UNCHANGED <<db, engine, other, tally, script>>

VerifyBallot ==
    /\ \E i \in 1..Len(ballots) :
          ret' = [op |-> "verify_ballot", i |-> i,
                  res |-> verify_ballot(engine, ballots[i])]
    /\ UNCHANGED <<db, engine, other, ballots, chosen, tally, script>>

\* the ballot is verified by the engine built for another request
VerifyElsewhere ==
    /\ \E i \in 1..Len(ballots) :
          ret' = [op |-> "verify_elsewhere", i |-> i,
                  res |-> verify_ballot(other, ballots[i])]
    /\ UNCHANGED <<db, engine, other, ballots, chosen, tally, script>>

\* combine_encrypted_votes on the held ballots, passed in any order
Combine ==
    /\ ballots # <<>>
    /\ \E order \in Perms(1..Len(ballots)) :
          /\ ret' = [op |-> "combine", order |-> order,
                     res |-> combine_encrypted_votes(engine,
                                                     Pick(ballots, order))]
          /\ tally' = IF ret'.res.ok
                      THEN [ok |-> TRUE, val |-> ret'.res.val, of |-> order]
                      ELSE NoTally
    /\ UNCHANGED <<db, engine, other, ballots, chosen, script>>

\* decrypt_result as it would be if a failed call dropped the election's
\* private key
DecryptResult_DropsKey ==
    /\ tally.ok
    /\ ret' = [op |-> "decrypt_result", of |-> tally.of,
               res |-> decrypt_result(engine, tally.val)]
    /\ engine' = IF ret'.res.ok THEN engine
                 ELSE [engine EXCEPT !.priv_key = 0]
    /\ UNCHANGED <<db, other, ballots, chosen, tally, script>>

DecryptResult ==
    /\ tally.ok
    /\ ret' = [op |-> "decrypt_result", of |-> tally.of,
               res |-> decrypt_result(engine, tally.val)]
    /\ UNCHANGED <<db, engine, other, ballots, chosen, tally, script>>

Next ==
    \/ EncryptVote
    \/ VerifyBallot
    \/ VerifyElsewhere
    \/ Combine
    \/ DecryptResult

Spec == Init /\ [][Next]_vars

(***************************************************************************)
(* Claims about the engine's calls.                                        *)
(***************************************************************************)

\* C2: decrypt_result applied to the combination of any n >= 1 honest
\* ballots returns the per-candidate counts of these n ballots; it performs
\* no check on the total of the counts.
C2_DecryptsAnyNumberOfBallots ==
    ret.op = "decrypt_result" => ret.res = Ok(Counts(chosen, ret.of))

\* C3: every ballot that encrypt_vote returned verifies as true on the
\* engine that built it, for both back-ends.
C3_EncryptedBallotsVerify ==
    \A i \in 1..Len(ballots) : verify_ballot(engine, ballots[i]) = Ok(TRUE)

C3_Witness ==
    /\ ret.op = "encrypt_vote"
    /\ ret.res.ok
    /\ Len(ballots) >= 2
    /\ ret.res.val = ballots[Len(ballots)]
    /\ ballots[1].voter_id # ballots[2].voter_id

\* C4: a ballot that encrypt_vote built on one engine verifies as true on
\* any other engine of the same back-end: verify_ballot needs no per-voter
\* key registry.
C4_VerifiesOnAnyEngine ==
    ret.op = "verify_elsewhere" => ret.res = Ok(TRUE)

\* C7: the tally combine returns does not depend on the order in which the
\* verified ballots are passed.
C7_TallyCommutes ==
    tally.ok =>
        \A order \in Perms(1..Len(tally.of)) :
            combine_encrypted_votes(engine, Pick(ballots, order)) = Ok(tally.val)

(***************************************************************************)
(* Ballots that were altered between encrypt_vote and the engine: the      *)
(* caller of verify_ballot and combine_encrypted_votes passes any Ballot.  *)
(***************************************************************************)
TamperKinds ==
    {"r_zero", "s_zero", "r_order", "s_order", "ciphertext", "voter_id"}

Tampered(use_ec, ballot, kind) ==
    LET q == IF use_ec THEN ORDER ELSE PARAM_Q
        r == ballot.signature[1]
        s == ballot.signature[2]
        first == ballot.encrypted_votes[1]
    IN  CASE kind = "r_zero" -> [ballot EXCEPT !.signature = <<0, s>>]
          [] kind = "s_zero" -> [ballot EXCEPT !.signature = <<r, 0>>]
          [] kind = "r_order" -> [ballot EXCEPT !.signature = <<q, s>>]
          [] kind = "s_order" -> [ballot EXCEPT !.signature = <<r, q>>]
          [] kind = "ciphertext" ->
                [ballot EXCEPT !.encrypted_votes[1] =
                    IF use_ec THEN <<first[1], add(first[2], BasePoint)>>
                    ELSE <<first[1], (first[2] * PARAM_G) % PARAM_P>>]
          [] kind = "voter_id" -> [ballot EXCEPT !.voter_id = NUM_VOTERS]

\* one of the held ballots, all of them honest so far, is altered
Tamper ==
    /\ \A j \in 1..Len(ballots) : verify_ballot(engine, ballots[j]) = Ok(TRUE)
    /\ \E i \in 1..Len(ballots), kind \in TamperKinds :
          /\ ballots' = [ballots EXCEPT ![i] =
                            Tampered(engine.use_ec, ballots[i], kind)]
          /\ ret' = [op |-> "tamper", i |-> i, kind |-> kind]
    /\ UNCHANGED <<db, engine, other, chosen, tally, script>>

NextTamper ==
    \/ EncryptVote
    \/ Tamper
    \/ VerifyBallot
    \/ Combine

\* one engine serves every call
InitTamper == Init /\ other = engine

SpecTamper == InitTamper /\ [][NextTamper]_vars

\* the first ballot of a sequence that verify_ballot does not return true for
FirstBad(self, passed) ==
    CHOOSE i \in 1..Len(passed) :
        /\ verify_ballot(self, passed[i]) # Ok(TRUE)
        /\ \A j \in 1..(i - 1) : verify_ballot(self, passed[j]) = Ok(TRUE)

\* C5: when some ballot passed to combine does not verify, combine returns
\* no tally and fails with the error that names the voter_id of the first
\* such ballot.
C5_CombineNamesFirstBadBallot ==
    (/\ ret.op = "combine"
     /\ \E i \in 1..Len(ballots) : verify_ballot(engine, ballots[i]) # Ok(TRUE))
    => ret.res = BadBallotError(
                    Pick(ballots, ret.order)[
                        FirstBad(engine, Pick(ballots, ret.order))].voter_id)

\* C6: verify_ballot returns true or false for every ballot; it never fails
\* with an error, whatever the signature components and the voter_id are.
C6_VerifyReturnsBoolean ==
    ret.op = "verify_ballot" => ret.res \in {Ok(TRUE), Ok(FALSE)}

(***************************************************************************)
(* backend/voting.py: run_election.  The candidates its randbelow calls    *)
(* draw are the election's votes, drawn when the election starts.          *)
(***************************************************************************)
\* S1 and S2 of the specification, a 9-to-1 split and a round-robin split
ElectionVotes ==
    {[v \in Voters |-> 0],
     [v \in Voters |-> <<0, 0, 1, 2, 3, 4, 4, 4, 3, 2>>[v + 1]],
     [v \in Voters |-> IF v < NUM_VOTERS - 1 THEN 0 ELSE 1],
     [v \in Voters |-> v % NUM_CANDIDATES]}

InitElection ==
    /\ \E use_ec \in BOOLEAN, seed \in Seeds, votes \in ElectionVotes,
          base \in 0..MaxNonceBase :
          /\ engine = VotingSystem(use_ec,
                         KeyDraw(seed, 0, IF use_ec THEN ORDER ELSE PARAM_Q),
                         VoterDraws(use_ec, seed))
          /\ script = [name |-> "run_election", votes |-> votes, nonce |-> base]
    /\ other = engine
    /\ ballots = <<>>
    /\ chosen = <<>>
    /\ tally = NoTally
    /\ ret = NoCall
    /\ db = init_database

\* one turn of "for voter_id in range(NUM_VOTERS)"; a call that raised or
\* does not return ends the election
ElectionVote ==
    /\ Len(ballots) < NUM_VOTERS
    /\ ret = NoCall \/ (ret.op = "encrypt_vote" /\ ret.res.ok)
    /\ ret' = [op |-> "encrypt_vote",
               candidate |-> script.votes[Len(ballots)],
               voter_id |-> Len(ballots),
               res |-> CastBallot(engine,
                          create_vote(script.votes[Len(ballots)]),
                          Len(ballots),
                          NonceVector(engine.use_ec,
                                      script.nonce + 2 * Len(ballots)))]
    /\ ballots' = IF ret'.res.ok THEN Append(ballots, ret'.res.val) ELSE ballots
    /\ chosen' = IF ret'.res.ok
                 THEN Append(chosen, script.votes[Len(ballots)]) ELSE chosen
    /\ UNCHANGED <<db, engine, other, tally, script>>

\* combined = system.combine_encrypted_votes(ballots)
ElectionCombine ==
    /\ Len(ballots) = NUM_VOTERS
    /\ ret.op = "encrypt_vote"
    /\ ret' = [op |-> "combine", order |-> [i \in 1..NUM_VOTERS |-> i],
               res |-> combine_encrypted_votes(engine, ballots)]
    /\ tally' = IF ret'.res.ok
                THEN [ok |-> TRUE, val |-> ret'.res.val,
                      of |-> [i \in 1..NUM_VOTERS |-> i]]
                ELSE NoTally
    /\ UNCHANGED <<db, engine, other, ballots, chosen, script>>

\* results = system.decrypt_result(combined)
NextElection ==
    \/ ElectionVote
    \/ ElectionCombine
    \/ DecryptResult

SpecElection == InitElection /\ [][NextElection]_vars

\* C1: in an election of 10 voters and 5 candidates, whatever the back-end
\* and the votes, decrypt_result of the combined ballots returns for each
\* candidate the number of voters who chose it.
C1_ElectionTallyIsTheCount ==
    (script.name = "run_election" /\ ret.op = "decrypt_result")
    => ret.res = Ok([c \in Slots |->
                        Cardinality({v \in Voters : script.votes[v] = c - 1})])

(***************************************************************************)
(* backend/test_ecelgamal.py and backend/test_elgamal_additive.py: the     *)
(* scripts encrypt a list of bits under one key pair, fold the ciphertexts *)
(* and decrypt the result.  The list is any list of at most MaxBits bits;  *)
(* a ciphertext is folded as soon as it is encrypted.                      *)
(***************************************************************************)
MaxBits == 10

NoEngine == [name |-> "none"]

\* the finite-field group is scaled: a list sums below its order
ScriptLimit(name) ==
    IF name = "test_ecelgamal" \/ MaxBits < PARAM_Q - 1
    THEN MaxBits ELSE PARAM_Q - 1

InitScript ==
    /\ \E name \in {"test_ecelgamal", "test_elgamal_additive"}, seed \in Seeds :
          LET keys == IF name = "test_ecelgamal"
                      THEN ECEG_generate_keys(KeyDraw(seed, 0, ORDER))
                      ELSE EG_generate_keys(KeyDraw(seed, 0, PARAM_Q))
          IN  script = [name |-> name, private_key |-> keys[1],
                        public_key |-> keys[2], count |-> 0, expected |-> 0,
                        sum |-> <<>>, done |-> FALSE]
    /\ engine = NoEngine
    /\ other = NoEngine
    /\ ballots = <<>>
    /\ chosen = <<>>
    /\ tally = NoTally
    /\ ret = NoCall
    /\ db = init_database

\* r_sum, c_sum (r_prod, c_prod) after one more ciphertext
Fold(name, sum, enc) ==
    IF sum = <<>> THEN enc
    ELSE IF name = "test_ecelgamal"
    THEN <<add(sum[1], enc[1]), add(sum[2], enc[2])>>
    ELSE <<(sum[1] * enc[1]) % PARAM_P, (sum[2] * enc[2]) % PARAM_P>>

ScriptEncrypt ==
    /\ ~script.done
    /\ script.count < ScriptLimit(script.name)
    /\ \E m \in {0, 1},
          k \in IF script.name = "test_ecelgamal" THEN ECNonces ELSE FFNonces :
          script' = [script EXCEPT
                        !.count = @ + 1,
                        !.expected = @ + m,
                        !.sum = Fold(script.name, @,
                                  IF script.name = "test_ecelgamal"
                                  THEN ECEG_encrypt(m, script.public_key, k).val
                                  ELSE EGA_encrypt(m, script.public_key, k).val)]
    /\ UNCHANGED <<db, engine, other, ballots, chosen, tally, ret>>

ScriptDecrypt ==
    /\ ~script.done
    /\ script.count >= 1
    /\ script' = [script EXCEPT !.done = TRUE]
    /\ ret' = IF script.name = "test_ecelgamal"
              THEN [op |-> "ECEG_decrypt",
                    res |-> ECEG_decrypt(script.private_key,
                                         script.sum[1], script.sum[2])]
              ELSE [op |-> "EGA_decrypt",
                    res |-> EGA_decrypt(script.private_key,
                                        script.sum[1], script.sum[2])]
    /\ UNCHANGED <<db, engine, other, ballots, chosen, tally>>

NextScript ==
    \/ ScriptEncrypt
    \/ ScriptDecrypt

SpecScript == InitScript /\ [][NextScript]_vars

\* C8: adding the EC ciphertexts of any list of bits component-wise and
\* decrypting the sum returns the sum of the bits.
C8_ECSumDecryptsToSum ==
    ret.op = "ECEG_decrypt" => ret.res = Ok(script.expected)

\* C9: multiplying the finite-field ciphertexts of a list of bits
\* component-wise modulo P and decrypting the product returns the sum of
\* the bits.
C9_FFProductDecryptsToSum ==
    ret.op = "EGA_decrypt" => ret.res = Ok(script.expected)

C9_Witness ==
    /\ ret.op = "EGA_decrypt"
    /\ script.count >= 3
    /\ script.expected >= 2
    /\ script.expected < script.count
    /\ ret.res = Ok(script.expected)

(***************************************************************************)
(* One encryption and its decryption, for each of the three modules:       *)
(* backend/ecelgamal.py, ecelgamal.py and backend/elgamal.py.              *)
(***************************************************************************)
Modules == {"backend/ecelgamal", "ecelgamal", "backend/elgamal"}

ModuleKeys(name) ==
    IF name = "backend/ecelgamal" THEN ECPrivateKeys
    ELSE IF name = "ecelgamal" THEN RootECPrivateKeys
    ELSE FFPrivateKeys

ModuleNonces(name) ==
    IF name = "backend/ecelgamal" THEN ECNonces
    ELSE IF name = "ecelgamal" THEN RootECNonces
    ELSE FFNonces

InitRoundTrip ==
    /\ \E name \in Modules :
          \E x \in ModuleKeys(name) :
              script = [name |-> name, private_key |-> x,
                        public_key |-> IF name = "backend/elgamal"
                                       THEN EG_generate_keys(x)[2]
                                       ELSE ECEG_generate_keys(x)[2],
                        message |-> 0, enc |-> Err("none")]
    /\ engine = NoEngine
    /\ other = NoEngine
    /\ ballots = <<>>
    /\ chosen = <<>>
    /\ tally = NoTally
    /\ ret = NoCall
    /\ db = init_database

Encrypt ==
    /\ ret = NoCall
    /\ \E m \in {0, 1}, k \in ModuleNonces(script.name) :
          /\ script' = [script EXCEPT
                !.message = m,
                !.enc = IF script.name = "backend/ecelgamal"
                        THEN ECEG_encrypt(m, script.public_key, k)
                        ELSE IF script.name = "ecelgamal"
                        THEN Root_ECEG_encrypt(m, script.public_key, k)
                        ELSE EGA_encrypt(m, script.public_key, k)]
          /\ ret' = [op |-> "encrypt", k |-> k]
    /\ UNCHANGED <<db, engine, other, ballots, chosen, tally>>

Decrypt ==
    /\ ret.op = "encrypt"
    /\ script.enc.ok
    /\ ret' = [op |-> "decrypt",
               res |-> IF script.name = "backend/ecelgamal"
                       THEN ECEG_decrypt(script.private_key,
                                script.enc.val[1], script.enc.val[2])
                       ELSE IF script.name = "ecelgamal"
                       THEN Root_ECEG_decrypt(script.private_key,
                                script.enc.val[1], script.enc.val[2])
                       ELSE EGA_decrypt(script.private_key,
                                script.enc.val[1], script.enc.val[2])]
    /\ UNCHANGED <<db, engine, other, ballots, chosen, tally, script>>

NextRoundTrip ==
    \/ Encrypt
    \/ Decrypt

SpecRoundTrip == InitRoundTrip /\ [][NextRoundTrip]_vars

\* C10: for every key pair, bit and nonce, and for each of the three
\* modules, decrypting what encrypt produced returns the bit: decryption
\* neither rejects nor mis-decodes it.
C10_DecryptInvertsEncrypt ==
    ret.op = "decrypt" => ret.res = Ok(script.message)
(***************************************************************************)
(* The signing modules on their own: backend/dsa.py, backend/ecdsa.py and  *)
(* the earlier revision ecdsa.py, each called with any key pair its        *)
(* generator can return and any message.  sign is called twice, verify is  *)
(* called on what sign returned.                                           *)
(***************************************************************************)
MaxMessageLen == 2
MaxDraw == 4            \* distinct outcomes of a nonce draw of ecdsa.py

MessageBytes == {0, 1, 65, 255}

RECURSIVE MessagesOfLen(_)
MessagesOfLen(n) ==
    IF n = 0 THEN {<<>>}
    ELSE {Append(m, b) : m \in MessagesOfLen(n - 1), b \in MessageBytes}

SignMessages == UNION {MessagesOfLen(n) : n \in 0..MaxMessageLen}

SignModules == {"backend/dsa", "backend/ecdsa", "ecdsa"}

\* ecdsa.py: private_key = randbelow(ORDER-1) + 1
RootECDSAPrivateKeys == 1..(ORDER - 1)
\* ecdsa.py, ECDSA_generate_nonce: k = randbelow(order-1) + 1
RootECDSANonces == 1..(ORDER - 1)

SignKeys(name) ==
    IF name = "backend/dsa" THEN DSAPrivateKeys
    ELSE IF name = "backend/ecdsa" THEN ECDSAPrivateKeys
    ELSE RootECDSAPrivateKeys

\* ecdsa.py, ECDSA_sign: k is the draw of the turn of the loop that is
\* looked at; a turn that ends in "continue" is followed by a new draw
Root_ECDSA_sign(message, private_key, k) ==
    IF ~(0 < private_key /\ private_key < ORDER)
    THEN SignRaises("Cle privee invalide")
    ELSE ECDSA_sign_turn(H(message), private_key, k)

\* the nonces a call of sign can draw: the derived one, or any draw
SignDraws(name, private_key, message) ==
    IF name = "ecdsa" THEN {k \in RootECDSANonces : k <= MaxDraw} ELSE {0}

SignCall(name, message, private_key, k) ==
    IF name = "backend/dsa" THEN DSA_sign(message, private_key)
    ELSE IF name = "backend/ecdsa" THEN ECDSA_sign(message, private_key)
    ELSE Root_ECDSA_sign(message, private_key, k)

VerifyCall(name, message, signature, public_key) ==
    IF name = "backend/dsa" THEN DSA_verify(message, signature, public_key)
    ELSE ECDSA_verify(message, signature, public_key)

InitSign ==
    /\ \E name \in SignModules :
          \E x \in SignKeys(name), message \in SignMessages :
              script = [name |-> name, private_key |-> x,
                        public_key |-> IF name = "backend/dsa"
                                       THEN DSA_generate_keys(x)[2]
                                       ELSE ECDSA_generate_keys(x)[2],
                        message |-> message, sigs |-> <<>>]
    /\ engine = NoEngine
    /\ other = NoEngine
    /\ ballots = <<>>
    /\ chosen = <<>>
    /\ tally = NoTally
    /\ ret = NoCall
    /\ db = init_database

\* sign(message, private_key), called at most twice
Sign ==
    /\ Len(script.sigs) < 2
    /\ \E k \in SignDraws(script.name, script.private_key, script.message) :
          /\ ret' = [op |-> "sign",
                     res |-> SignCall(script.name, script.message,
                                      script.private_key, k)]
          \* the earlier revision draws again after a turn that continued
          /\ script.name = "ecdsa" => ret'.res.st # "hang"
          /\ script' = [script EXCEPT !.sigs = Append(@, ret'.res)]
    /\ UNCHANGED <<db, engine, other, ballots, chosen, tally>>

\* verify(message, signature, public_key) on a signature sign returned
Verify ==
    /\ \E i \in 1..Len(script.sigs) :
          /\ script.sigs[i].st = "ok"
          /\ ret' = [op |-> "verify", signature |-> script.sigs[i].sig,
                     res |-> VerifyCall(script.name, script.message,
                                        script.sigs[i].sig, script.public_key)]
    /\ UNCHANGED <<db, engine, other, ballots, chosen, tally, script>>

NextSign ==
    \/ Sign
    \/ Verify

SpecSign == InitSign /\ [][NextSign]_vars

\* C11: for every message and every generated key pair, the signature that
\* DSA_sign / ECDSA_sign returned is accepted by DSA_verify / ECDSA_verify
\* under the public key of the pair.
C11_SignaturesVerify ==
    ret.op = "verify" => ret.res = Ok(TRUE)

C11_Witness ==
    /\ ret.op = "verify"
    /\ script.name = "backend/dsa"
    /\ Len(script.message) = MaxMessageLen
    /\ ret.res = Ok(TRUE)

\* C13: two invocations of sign with the same private key and message
\* return the identical pair (r, s), for DSA and for ECDSA in every
\* revision of the signing module.
C13_SignIsDeterministic ==
    Len(script.sigs) = 2 => script.sigs[1] = script.sigs[2]
(***************************************************************************)
(* The loop of DSA_sign / ECDSA_sign of the back-end, turn by turn: the    *)
(* nonce is derived at the top of the loop, then r and s are computed and  *)
(* the turn returns or continues.  ret holds the position in the loop.     *)
(***************************************************************************)
\* The nonce derivation and the body of a turn read nothing but the
\* arguments of the call, which no turn changes: script.nonce is what
\* DSA_generate_nonce / ECDSA_generate_nonce returns for (private_key,
\* message), script.turn is what the body of the loop does with that nonce.
InitSignLoop ==
    /\ \E name \in SignModules \ {"ecdsa"} :
          \E x \in SignKeys(name), message \in SignMessages :
              \E k \in {IF name = "backend/dsa"
                        THEN DSA_generate_nonce(x, message)
                        ELSE ECDSA_generate_nonce(x, message)} :
                  script = [name |-> name, private_key |-> x,
                            message |-> message, sigs |-> <<>>,
                            nonce |-> k,
                            turn |-> IF name = "backend/dsa"
                                     THEN DSA_sign_turn(H(message), x, k)
                                     ELSE ECDSA_sign_turn(H(message), x, k)]
    /\ engine = NoEngine
    /\ other = NoEngine
    /\ ballots = <<>>
    /\ chosen = <<>>
    /\ tally = NoTally
    /\ ret = NoCall
    /\ db = init_database

\* k = DSA_generate_nonce(private_key, message)
SignDerive ==
    /\ ret.op \in {"none", "continue"}
    /\ ret' = [op |-> "nonce", k |-> script.nonce]
    /\ UNCHANGED <<db, engine, other, ballots, chosen, tally, script>>

\* the rest of the turn: "continue" when r = 0 or s = 0, else "return r, s"
SignCheck ==
    /\ ret.op = "nonce"
    /\ script' = [script EXCEPT !.sigs = <<script.turn>>]
    /\ ret' = IF script.turn.st = "ok"
              THEN [op |-> "sign", res |-> script.turn]
              ELSE [op |-> "continue"]
    /\ UNCHANGED <<db, engine, other, ballots, chosen, tally>>

NextSignLoop ==
    \/ SignDerive
    \/ SignCheck

\* the interpreter keeps running the loop
SpecSignLoop ==
    /\ InitSignLoop
    /\ [][NextSignLoop]_vars
    /\ WF_vars(SignDerive)
    /\ WF_vars(SignCheck)

\* C14: for every valid private key and every message, DSA_sign and
\* ECDSA_sign eventually return (a signature or a NonceExhaustion error):
\* the loop does not repeat forever.
C14_SignTerminates ==
    <>(ret.op \in {"sign", "NonceExhaustion"})

(***************************************************************************)
(* backend/voting.py: test_signatures.  A ballot encrypt_vote returned has *)
(* the component s of its signature altered, by (s + 1) mod order as the   *)
(* test does or by the flip of one bit, and is verified again.             *)
(***************************************************************************)
SignatureOrder(use_ec) == IF use_ec THEN ORDER ELSE PARAM_Q

\* s with bit b flipped
FlipBit(s, b) ==
    IF (s \div (2 ^ b)) % 2 = 1 THEN s - 2 ^ b ELSE s + 2 ^ b

\* the alterations of s: <<"next", 0>> is (s + 1) mod order, <<"flip", b>>
\* is the flip of bit b of s, over the bits of the order
Mutations(use_ec) ==
    {<<"next", 0>>}
        \cup {<<"flip", b>> : b \in 0..(bit_length(SignatureOrder(use_ec)) - 1)}

Mutated(use_ec, ballot, how) ==
    LET r == ballot.signature[1]
        s == ballot.signature[2]
    IN  Ballot(ballot.encrypted_votes,
               IF how[1] = "next"
               THEN <<r, (s + 1) % SignatureOrder(use_ec)>>
               ELSE <<r, FlipBit(s, how[2])>>,
               ballot.voter_id)

\* invalid_ballot = Ballot(ballot.encrypted_votes, (r, s'), ballot.voter_id)
MutateSignature ==
    /\ script = NoScript
    /\ \E i \in 1..Len(ballots), how \in Mutations(engine.use_ec) :
          /\ ballots' = [ballots EXCEPT ![i] =
                            Mutated(engine.use_ec, ballots[i], how)]
          /\ script' = [name |-> "test_signatures", i |-> i, how |-> how,
                        was |-> ballots[i].signature]
          /\ ret' = [op |-> "mutate", i |-> i]
    /\ UNCHANGED <<db, engine, other, chosen, tally>>

NextMutate ==
    \/ EncryptVote
    \/ MutateSignature
    \/ VerifyBallot

SpecMutate == InitTamper /\ [][NextMutate]_vars

\* C12: for every ballot encrypt_vote signed, after one bit of signature.s
\* is flipped, or s is replaced by (s + 1) mod order, verify_ballot returns
\* false, for both DSA and ECDSA.
C12_MutatedSignatureIsRejected ==
    (/\ ret.op = "verify_ballot"
     /\ script.name = "test_signatures"
     /\ ret.i = script.i)
    => ret.res = Ok(FALSE)
(***************************************************************************)
(* create_vote for an election of K candidates.  backend/api.py accepts    *)
(* elections of 2 to 20 candidates and builds the engine of a request with *)
(* num_candidates = K; VotingSystem.__init__ has no such parameter, and    *)
(* create_vote reads the module constant NUM_CANDIDATES.                   *)
(***************************************************************************)
MinCandidates == 2      \* api.py: len(config.candidates) < 2 is refused
MaxCandidates == 20     \* api.py: len(config.candidates) > 20 is refused

\* api.py: VotingSystem(use_ec=..., num_candidates=len(candidates))
ApiVotingSystem(use_ec, num_candidates) ==
    Err("TypeError: unexpected keyword argument 'num_candidates'")

InitCreate ==
    /\ \E K \in MinCandidates..MaxCandidates :
          script = [name |-> "election", num_candidates |-> K]
    /\ engine = NoEngine
    /\ other = NoEngine
    /\ ballots = <<>>
    /\ chosen = <<>>
    /\ tally = NoTally
    /\ ret = NoCall
    /\ db = init_database

\* VotingSystem(use_ec).create_vote(candidate), for the election's voters
CreateVote ==
    /\ \E candidate \in (-1)..MaxCandidates :
          ret' = [op |-> "create_vote", candidate |-> candidate,
                  res |-> create_vote(candidate)]
    /\ UNCHANGED <<db, engine, other, ballots, chosen, tally, script>>

\* api.py, submit_vote: the engine is built with num_candidates, then
\* create_vote(vote.candidate) is called on it
SubmitVote ==
    /\ \E candidate \in (-1)..MaxCandidates, use_ec \in BOOLEAN :
          ret' = [op |-> "submit_vote", candidate |-> candidate,
                  res |-> IF ApiVotingSystem(use_ec,
                                             script.num_candidates).ok
                          THEN create_vote(candidate)
                          ELSE ApiVotingSystem(use_ec, script.num_candidates)]
    /\ UNCHANGED <<db, engine, other, ballots, chosen, tally, script>>

NextCreate ==
    \/ CreateVote
    \/ SubmitVote

SpecCreate == InitCreate /\ [][NextCreate]_vars

\* C15: in an election of K candidates (2 <= K <= 20), create_vote(candidate)
\* returns the vector of length K over {0, 1} whose single 1 is at index
\* candidate when 0 <= candidate < K, and fails with the invalid-candidate
\* error for every other candidate.
C15_CreateVoteIsIndicator ==
    ret.op \in {"create_vote", "submit_vote"} =>
        IF 0 <= ret.candidate /\ ret.candidate < script.num_candidates
        THEN ret.res = Ok([i \in 1..script.num_candidates |->
                              IF i - 1 = ret.candidate THEN 1 ELSE 0])
        ELSE ret.res = Err("Candidat invalide")
(***************************************************************************)
(* encrypt_vote called with a vote_list of the caller's making: the        *)
(* well-formed vector, vectors of the wrong length, entries outside        *)
(* {0, 1} that sum to 1, all zeros, several ones.                          *)
(***************************************************************************)
VoteLists ==
    {<<0, 0, 1, 0, 0>>, <<1>>, <<0, 1, 0, 0, 0, 0>>, <<2, -1, 0, 0, 0>>,
     <<0, 0, 0, 0, 0>>, <<1, 1, 0, 0, 0>>, <<>>}

\* a length-K vector over {0, 1} with exactly one 1
WellFormed(vote_list) ==
    /\ Len(vote_list) = NUM_CANDIDATES
    /\ \A i \in 1..Len(vote_list) : vote_list[i] \in {0, 1}
    /\ SumSeq(vote_list) = 1

\* ballot = encrypt_vote(vote_list, voter_id)
EncryptVoteList ==
    /\ Len(ballots) < MaxBallots
    /\ \E vote_list \in VoteLists, voter_id \in VoterChoices,
          nonces \in NonceVectors(engine.use_ec) :
          /\ ret' = [op |-> "encrypt_vote", vote_list |-> vote_list,
                     voter_id |-> voter_id,
                     res |-> encrypt_vote(engine, vote_list, voter_id,
                                          nonces \o nonces)]
          /\ ballots' = IF ret'.res.ok
                        THEN Append(ballots, ret'.res.val) ELSE ballots
    /\ UNCHANGED <<db, engine, other, chosen, tally, script>>

NextVoteList ==
    \/ EncryptVoteList
    \/ VerifyBallot

SpecVoteList == InitTamper /\ [][NextVoteList]_vars

\* C16: for every vote_list that is not a length-K vector over {0, 1} with
\* exactly one 1, encrypt_vote fails with an error and returns no ballot;
\* every ballot encrypt_vote returns has exactly K ciphertext slots.
C16_OnlyWellFormedVotesAreEncrypted ==
    ret.op = "encrypt_vote" =>
        /\ ~WellFormed(ret.vote_list) => ~ret.res.ok
        /\ ret.res.ok =>
              Len(ret.res.val.encrypted_votes) = NUM_CANDIDATES
(***************************************************************************)
(* One slot of a tally handed to the decryption of either back-end: a      *)
(* ciphertext (k G, m G + k Y), respectively (g^k, g^m y^k), of a          *)
(* plaintext m that may exceed what the search decodes or be negative.     *)
(***************************************************************************)
DecodeModules == {"backend/ecelgamal", "backend/elgamal"}

\* the plaintexts of the slot: EC from -3 to one above the search limit,
\* finite field every exponent of the group
SlotPlaintexts(name) ==
    IF name = "backend/ecelgamal" THEN (-3)..(DecodeLimit + 1)
    ELSE 0..(PARAM_Q - 1)

\* the arguments (C1, C2) / (c1, c2) of the decryption
SlotOf(name, m, public_key, k) ==
    IF name = "backend/ecelgamal"
    THEN <<mult(k, BasePoint),
           add(IF m >= 0 THEN mult(m, BasePoint)
               ELSE mult(-m, neg(BasePoint)),
               mult(k, public_key))>>
    ELSE <<pow(PARAM_G, k, PARAM_P),
           (pow(PARAM_G, m, PARAM_P) * pow(public_key, k, PARAM_P)) % PARAM_P>>

InitDecode ==
    /\ \E name \in DecodeModules :
          \E x \in ModuleKeys(name), m \in SlotPlaintexts(name) :
              script = [name |-> name, private_key |-> x,
                        public_key |-> IF name = "backend/elgamal"
                                       THEN EG_generate_keys(x)[2]
                                       ELSE ECEG_generate_keys(x)[2],
                        plaintext |-> m]
    /\ engine = NoEngine
    /\ other = NoEngine
    /\ ballots = <<>>
    /\ chosen = <<>>
    /\ tally = NoTally
    /\ ret = NoCall
    /\ db = init_database

\* ECEG_decrypt(private_key, C1, C2) / EGA_decrypt(private_key, c1, c2)
DecryptSlot ==
    /\ \E k \in 1..MaxDraw :
          \E slot \in {SlotOf(script.name, script.plaintext,
                              script.public_key, k)} :
              ret' = [op |-> "decrypt", slot |-> slot,
                      res |-> IF script.name = "backend/ecelgamal"
                              THEN ECEG_decrypt(script.private_key,
                                                slot[1], slot[2])
                              ELSE EGA_decrypt(script.private_key,
                                               slot[1], slot[2])]
    /\ UNCHANGED <<db, engine, other, ballots, chosen, tally, script>>

SpecDecode == InitDecode /\ [][DecryptSlot]_vars

\* the largest plaintext the search of ECEG_decrypt returns
MAX_TALLY == DecodeLimit - 1

\* C17: for both back-ends, decrypting a slot whose plaintext m is at most
\* MAX_TALLY returns m, and decrypting a slot whose plaintext exceeds
\* MAX_TALLY, or is negative, fails with a decode failure instead of
\* returning a value.
C17_DecodeIsBounded ==
    ret.op = "decrypt" =>
        IF 0 <= script.plaintext /\ script.plaintext <= MAX_TALLY
        THEN ret.res = Ok(script.plaintext)
        ELSE ~ret.res.ok
(***************************************************************************)
(* submit_vote of api.py: the voter_id handed to encrypt_vote is the       *)
(* database id of the authenticated user.                                  *)
(***************************************************************************)
\* current_user["id"]: two ids below NUM_VOTERS and two that are not
UserIds == {0, NUM_VOTERS - 1, NUM_VOTERS, 42}

EncryptVoteFor ==
    /\ Len(ballots) < MaxBallots
    /\ \E candidate \in CandidateChoices, voter_id \in UserIds,
          nonces \in NonceVectors(engine.use_ec) :
          /\ ret' = [op |-> "encrypt_vote", candidate |-> candidate,
                     voter_id |-> voter_id,
                     res |-> CastBallot(engine, create_vote(candidate),
                                        voter_id, nonces)]
          /\ ballots' = IF ret'.res.ok
                        THEN Append(ballots, ret'.res.val) ELSE ballots
          /\ chosen' = IF ret'.res.ok
                       THEN Append(chosen, candidate) ELSE chosen
    /\ UNCHANGED <<db, engine, other, tally, script>>

NextAuth ==
    \/ EncryptVoteFor
    \/ VerifyBallot
    \/ Combine

SpecAuth == InitTamper /\ [][NextAuth]_vars

\* C19: for every integer voter_id supplied by the authenticator,
\* encrypt_vote of a valid vote returns a ballot that carries this voter_id
\* unchanged; the core does not fail on the identifier's value.
C19_VoterIdIsOpaque ==
    (ret.op = "encrypt_vote" /\ create_vote(ret.candidate).ok) =>
        ret.res.ok /\ ret.res.val.voter_id = ret.voter_id
(***************************************************************************)
(* The engine's fields across its calls.                                    *)
(***************************************************************************)

RootNonceVector(base) == [i \in Slots |-> ((base + i - 1) % (ORDER - 1)) + 1]

\* the signing half of encrypt_vote, k being the nonce ECDSA_sign draws
Root_SignVotes(self, encrypted_votes, message, voter_id, k) ==
    IF voter_id \notin DOMAIN self.voter_keys
    THEN Err("KeyError")
    ELSE SignedBallot(encrypted_votes, voter_id,
            Root_ECDSA_sign(message, self.voter_keys[voter_id].private, k))

Root_EncryptedVotes(self, encs, voter_id, k) ==
    LET bad == {i \in DOMAIN encs : ~encs[i].ok}
    IN  IF bad # {}
        THEN encs[CHOOSE i \in bad : \A j \in bad : i <= j]
        ELSE Root_SignVotes(self, [i \in DOMAIN encs |-> encs[i].val],
                            BallotMessage(TRUE,
                                          [i \in DOMAIN encs |-> encs[i].val]),
                            voter_id, k)

Root_encrypt_vote(self, vote_list, voter_id, nonces, k) ==
    Root_EncryptedVotes(self,
        [i \in 1..Len(vote_list) |->
            Root_ECEG_encrypt(vote_list[i], self.pub_key, nonces[i])],
        voter_id, k)

\* decrypt_result after its loop: the first decryption that raised ends the
\* call, and the list of the counts is returned as it is
Root_Results(decs) ==
    LET bad == {i \in DOMAIN decs : ~decs[i].ok}
    IN  IF bad # {}
        THEN decs[CHOOSE i \in bad : \A j \in bad : i <= j]
        ELSE Ok([i \in DOMAIN decs |-> decs[i].val])

Root_decrypt_result(self, combined_votes) ==
    Root_Results(
        [i \in 1..Len(combined_votes) |->
            Root_ECEG_decrypt(self.priv_key, combined_votes[i][1],
                              combined_votes[i][2])])

InitRoot ==
    /\ \E seed \in Seeds :
          engine = VotingSystem(TRUE, KeyDraw(seed, 0, ORDER),
                                VoterDraws(TRUE, seed))
    /\ other = engine
    /\ ballots = <<>>
    /\ chosen = <<>>
    /\ tally = NoTally
    /\ script = NoScript
    /\ ret = NoCall
    /\ db = init_database

\* vote = create_vote(candidate); ballot = encrypt_vote(vote, voter_id)
Root_EncryptVote ==
    /\ Len(ballots) < MaxBallots
    /\ \E candidate \in CandidateChoices, voter_id \in VoterChoices,
          base \in 0..MaxNonceBase, k \in 1..MaxDraw :
          /\ ret' = [op |-> "encrypt_vote", candidate |-> candidate,
                     voter_id |-> voter_id,
                     res |-> IF create_vote(candidate).ok
                             THEN Root_encrypt_vote(engine,
                                      create_vote(candidate).val, voter_id,
                                      RootNonceVector(base), k)
                             ELSE create_vote(candidate)]
          \* a turn of ECDSA_sign that ends in "continue" draws again
          /\ ret'.res # Err("does not return")
          /\ ballots' = IF ret'.res.ok
                        THEN Append(ballots, ret'.res.val) ELSE ballots
          /\ chosen' = IF ret'.res.ok
                       THEN Append(chosen, candidate) ELSE chosen
    /\ UNCHANGED <<db, engine, other, tally, script>>

\* combine_encrypted_votes on the held ballots or on some of them
Root_Combine ==
    /\ \E of \in (SUBSET (1..Len(ballots))) \ {{}} :
          \E order \in Perms(of) :
              /\ ret' = [op |-> "combine", order |-> order,
                         res |-> combine_encrypted_votes(engine,
                                                         Pick(ballots, order))]
              /\ tally' = IF ret'.res.ok
                          THEN [ok |-> TRUE, val |-> ret'.res.val,
                                of |-> order]
                          ELSE NoTally
    /\ UNCHANGED <<db, engine, other, ballots, chosen, script>>

\* decrypt_result(combined)
Root_DecryptResult ==
    /\ tally.ok
    /\ ret' = [op |-> "decrypt_result", of |-> tally.of,
               res |-> Root_decrypt_result(engine, tally.val)]
    /\ UNCHANGED <<db, engine, other, ballots, chosen, tally, script>>

\* decrypt_result(ballot.encrypted_votes)
Root_DecryptBallot ==
    /\ \E i \in 1..Len(ballots) :
          ret' = [op |-> "decrypt_result", of |-> <<i>>,
                  res |-> Root_decrypt_result(engine,
                                              ballots[i].encrypted_votes)]
    /\ UNCHANGED <<db, engine, other, ballots, chosen, tally, script>>

NextRoot ==
    \/ Root_EncryptVote
    \/ Root_Combine
    \/ Root_DecryptResult
    \/ Root_DecryptBallot

SpecRoot == InitRoot /\ [][NextRoot]_vars

\* C20: the engine never decrypts an individual ballot: every successful
\* decrypt_result decrypts an aggregate of several ballots, and no call
\* returns the plaintext vote vector of a single voter.
C20_OnlyAggregatesAreDecrypted ==
    (ret.op = "decrypt_result" /\ ret.res.ok) => Len(ret.of) >= 2

(***************************************************************************)
(* The nonce of the EC encryption.                                         *)
(***************************************************************************)
\* the point that encodes the plaintext bit
PlainPoint(message) == IF message = 0 THEN Neutral ELSE BasePoint

\* C21: EC encryption draws its nonce k from [1, ORDER-1]: k is never 0,
\* and no ciphertext that ECEG_encrypt returns has C1 equal to the neutral
\* point with C2 equal to the bare plaintext point.
C21_ECNonceIsNeverZero ==
    (ret.op = "encrypt" /\ script.name \in {"backend/ecelgamal", "ecelgamal"}
        /\ script.enc.ok) =>
        /\ ret.k \in 1..(ORDER - 1)
        /\ ~(script.enc.val[1] = Neutral
                /\ script.enc.val[2] = PlainPoint(script.message))

(***************************************************************************)
(* backend/database.py: the ballots table.  A ballot handed to the store   *)
(* is a models.Ballot; its signature holds Python integers or Python       *)
(* strings, and use_ec tells whether its ciphertexts and its public key    *)
(* are tuples (EC) or integers.                                            *)
(***************************************************************************)
MaxRows == 2            \* rows of the ballots table

\* a Python value that is an int (n) or a str (s)
PyInt(n) == [type |-> "int", n |-> n, s |-> <<>>]
PyStr(t) == [type |-> "str", n |-> 0, s |-> t]

StoredBallot(use_ec, encrypted_votes, signature, public_key, voter_id) ==
    [use_ec |-> use_ec, encrypted_votes |-> encrypted_votes,
     signature |-> signature, public_key |-> public_key,
     voter_id |-> voter_id]

\* all(c in '0123456789abcdefABCDEF' for c in s)
AllHex(s) == \A i \in 1..Len(s) : \E v \in 1..16 : Digits[v] = s[i]

\* the encrypted_votes column
EncodeVotes(ballot) ==
    [i \in 1..Len(ballot.encrypted_votes) |->
        LET c1 == ballot.encrypted_votes[i][1]
            c2 == ballot.encrypted_votes[i][2]
        IN  IF ballot.use_ec
            THEN <<<<str(c1[1]), str(c1[2])>>, <<str(c2[1]), str(c2[2])>>>>
            ELSE <<str(c1), str(c2)>>]

\* str(s) of a member of the signature
PyText(v) == IF v.type = "str" THEN v.s ELSE str(v.n)

\* the signature column
EncodeSignature(ballot) ==
    IF ballot.signature[1].type = "str" /\ AllHex(ballot.signature[1].s)
    THEN [i \in 1..Len(ballot.signature) |-> ballot.signature[i].s]
    ELSE [i \in 1..Len(ballot.signature) |-> PyText(ballot.signature[i])]

\* the public_key column, "ec,x,y" or "eg,k", as its comma-separated parts
EncodeKey(ballot) ==
    IF ballot.use_ec
    THEN <<"ec", str(ballot.public_key[1]), str(ballot.public_key[2])>>
    ELSE <<"eg", str(ballot.public_key)>>

BallotRow(election_id, ballot) ==
    [election_id |-> election_id, voter_id |-> ballot.voter_id,
     encrypted_votes |-> EncodeVotes(ballot),
     signature |-> EncodeSignature(ballot),
     public_key |-> EncodeKey(ballot)]

\* UNIQUE (election_id, voter_id)
HasBallot(d, election_id, voter_id) ==
    \E i \in 1..Len(d.ballots) :
        /\ d.ballots[i].election_id = election_id
        /\ d.ballots[i].voter_id = voter_id

\* store_ballot without the UNIQUE constraint of the table
store_ballot_NoConstraint(d, election_id, ballot) ==
    [res |-> Ok(TRUE),
     db |-> [d EXCEPT !.ballots = Append(@, BallotRow(election_id, ballot))]]

\* the value store_ballot returns and the tables it leaves
store_ballot(d, election_id, ballot) ==
    IF HasBallot(d, election_id, ballot.voter_id)
    THEN [res |-> Ok(FALSE), db |-> d]          \* sqlite3.IntegrityError
    ELSE [res |-> Ok(TRUE),
          db |-> [d EXCEPT !.ballots = Append(@, BallotRow(election_id, ballot))]]

\* one row of the ballots table, deserialised
DecodeRow(row) ==
    LET ec == row.public_key[1] = "ec"
    IN  [encrypted_votes |->
            [i \in 1..Len(row.encrypted_votes) |->
                LET v == row.encrypted_votes[i]
                IN  IF ec
                    THEN <<<<int(v[1][1], 10), int(v[1][2], 10)>>,
                           <<int(v[2][1], 10), int(v[2][2], 10)>>>>
                    ELSE <<int(v[1], 10), int(v[2], 10)>>],
         signature |-> [i \in 1..Len(row.signature) |-> int(row.signature[i], 16)],
         public_key |-> IF ec
                        THEN <<int(row.public_key[2], 10), int(row.public_key[3], 10)>>
                        ELSE int(row.public_key[2], 10),
         voter_id |-> row.voter_id]

RECURSIVE RowsOf(_, _)
RowsOf(rows, election_id) ==
    IF rows = <<>> THEN <<>>
    ELSE IF Head(rows).election_id = election_id
    THEN <<Head(rows)>> \o RowsOf(Tail(rows), election_id)
    ELSE RowsOf(Tail(rows), election_id)

get_ballots(d, election_id) ==
    LET rows == RowsOf(d.ballots, election_id)
    IN  [i \in 1..Len(rows) |-> DecodeRow(rows[i])]

\* the ids the requests name
ElectionIds == {1, 2}
StoreVoterIds == {1, 2}

ECSlots == [i \in Slots |-> <<<<9, 49>>, <<38 + i, 15>>>>]
FFSlots == [i \in Slots |-> <<2, 16 + i>>]

\* the ballots handed to the store: EC and finite field, the signature as
\* encrypt_vote returns it and as submit_vote rewrites it
StoreBallots(use_ec) ==
    IF use_ec
    THEN UNION {{StoredBallot(TRUE, ECSlots, <<PyInt(3), PyInt(21)>>,
                              <<9, 49>>, v),
                 StoredBallot(TRUE, ECSlots,
                              <<PyStr(hex(3)), PyStr(hex(21))>>, <<9, 49>>, v)}
                : v \in StoreVoterIds}
    ELSE UNION {{StoredBallot(FALSE, FFSlots, <<PyInt(9), PyInt(8)>>, 18, v),
                 StoredBallot(FALSE, FFSlots,
                              <<PyStr(hex(6)), PyStr(hex(10))>>, 18, v)}
                : v \in StoreVoterIds}

InitStore ==
    /\ engine = NoEngine
    /\ other = NoEngine
    /\ ballots = <<>>
    /\ chosen = <<>>
    /\ tally = NoTally
    /\ script = NoScript
    /\ ret = NoCall
    /\ db = init_database

\* db.store_ballot(election_id, ballot); the caller keeps what it stored
StoreBallot ==
    /\ \E election_id \in ElectionIds, use_ec \in BOOLEAN :
       \E ballot \in StoreBallots(use_ec) :
          /\ \/ Len(db.ballots) < MaxRows
             \/ HasBallot(db, election_id, ballot.voter_id)
          /\ ret' = [op |-> "store_ballot", election_id |-> election_id,
                     voter_id |-> ballot.voter_id,
                     res |-> store_ballot(db, election_id, ballot).res]
          /\ db' = store_ballot(db, election_id, ballot).db
          /\ ballots' = IF ret'.res = Ok(TRUE)
                        THEN Append(ballots, ballot) ELSE ballots
          /\ chosen' = IF ret'.res = Ok(TRUE)
                       THEN Append(chosen, election_id) ELSE chosen
    /\ UNCHANGED <<engine, other, tally, script>>

\* db.get_ballots(election_id)
GetBallots ==
    /\ \E election_id \in ElectionIds :
          ret' = [op |-> "get_ballots", election_id |-> election_id,
                  res |-> Ok(get_ballots(db, election_id))]
    /\ UNCHANGED <<db, engine, other, ballots, chosen, tally, script>>

NextStore ==
    \/ StoreBallot
    \/ GetBallots

SpecStore == InitStore /\ [][NextStore]_vars

OnePerVoter ==
    \A i, j \in 1..Len(db.ballots) :
        (db.ballots[i].election_id = db.ballots[j].election_id
            /\ db.ballots[i].voter_id = db.ballots[j].voter_id) => i = j

\* C22: after any sequence of store_ballot calls the table holds at most
\* one ballot per (election_id, voter_id), and a store_ballot call for a
\* pair that already has a ballot returns False and leaves every row
\* unchanged.
C22_OneBallotPerVoter ==
    /\ []OnePerVoter
    /\ [][(ret'.op = "store_ballot"
            /\ HasBallot(db, ret'.election_id, ret'.voter_id))
          => (ret'.res = Ok(FALSE) /\ db' = db)]_vars

C22_Witness ==
    /\ ret.op = "store_ballot"
    /\ ret.res = Ok(FALSE)
    /\ HasBallot(db, ret.election_id, ret.voter_id)
    /\ Len(db.ballots) = 1

(***************************************************************************)
(* backend/test_elgamal_mult.py: two residues are encrypted, the           *)
(* ciphertexts are multiplied component-wise, and the product and the      *)
(* first ciphertext are decrypted with EGM_decrypt.                        *)
(***************************************************************************)
Residues == 1..(PARAM_P - 1)

\* the draws of k the script's two encryptions see: the ends of the range
MultNonces == {1, PARAM_Q - 2}

InitMult ==
    /\ \E x \in FFPrivateKeys :
          script = [name |-> "test_elgamal_mult", private_key |-> x,
                    public_key |-> EG_generate_keys(x)[2],
                    m1 |-> 0, m2 |-> 0, e1 |-> Err("none"), e2 |-> Err("none")]
    /\ engine = NoEngine
    /\ other = NoEngine
    /\ ballots = <<>>
    /\ chosen = <<>>
    /\ tally = NoTally
    /\ ret = NoCall
    /\ db = init_database

\* r1, c1 = encrypt(m1, public_key); r2, c2 = encrypt(m2, public_key)
MultEncrypt ==
    /\ ret = NoCall
    /\ \E m1 \in Residues, m2 \in Residues, k1 \in MultNonces,
          k2 \in MultNonces :
          script' = [script EXCEPT
                        !.m1 = m1, !.m2 = m2,
                        !.e1 = EG_encrypt(m1, script.public_key, k1),
                        !.e2 = EG_encrypt(m2, script.public_key, k2)]
    /\ ret' = [op |-> "encrypt"]
    /\ UNCHANGED <<db, engine, other, ballots, chosen, tally>>

\* m3 = EGM_decrypt(private_key, r1 * r2 % p, c1 * c2 % p)
MultDecryptProduct ==
    /\ ret.op = "encrypt"
    /\ script.e1.ok /\ script.e2.ok
    /\ ret' = [op |-> "decrypt_product",
               res |-> EGM_decrypt(script.private_key,
                           (script.e1.val[1] * script.e2.val[1]) % PARAM_P,
                           (script.e1.val[2] * script.e2.val[2]) % PARAM_P)]
    /\ UNCHANGED <<db, engine, other, ballots, chosen, tally, script>>

\* EGM_decrypt(private_key, r1, c1)
MultDecryptOne ==
    /\ ret.op = "encrypt"
    /\ script.e1.ok
    /\ ret' = [op |-> "decrypt_one",
               res |-> EGM_decrypt(script.private_key, script.e1.val[1],
                                   script.e1.val[2])]
    /\ UNCHANGED <<db, engine, other, ballots, chosen, tally, script>>

NextMult ==
    \/ MultEncrypt
    \/ MultDecryptProduct
    \/ MultDecryptOne

SpecMult == InitMult /\ [][NextMult]_vars

\* C23: for every key pair and all residues m1, m2 in (0, P), EGM_decrypt of
\* the component-wise product of the encryptions of m1 and m2 returns
\* (m1 * m2) mod P, and EGM_decrypt of one encryption of m returns m.
C23_MultiplicativeHomomorphism ==
    /\ ret.op = "decrypt_product" =>
          ret.res = Ok((script.m1 * script.m2) % PARAM_P)
    /\ ret.op = "decrypt_one" => ret.res = Ok(script.m1)

C23_Witness ==
    /\ ret.op = "decrypt_product"
    /\ script.m1 = PARAM_P - 1
    /\ script.m2 = PARAM_G
    /\ script.e1.val[1] # script.e2.val[1]
    /\ ret.res = Ok((script.m1 * script.m2) % PARAM_P)

(***************************************************************************)
(* backend/api.py and backend/database.py: invitation codes and the        *)
(* registration of users.  used_by = 0 stands for NULL.  A request         *)
(* handler makes its database calls without awaiting, so it runs to its    *)
(* end before the next request is served.                                  *)
(***************************************************************************)
Codes == {"code1", "code2"}
Usernames == {"admin", "user1", "user2"}

\* generate_invitation_code(admin_id), code being the 32 characters drawn
generate_invitation_code(d, admin_id, code) ==
    IF \E i \in 1..Len(d.invitation_codes) : d.invitation_codes[i].code = code
    THEN [res |-> Err("sqlite3.IntegrityError"), db |-> d]
    ELSE [res |-> Ok(code),
          db |-> [d EXCEPT !.invitation_codes =
                      Append(@, [code |-> code, created_by |-> admin_id,
                                 used_by |-> 0])]]

verify_invitation_code(d, code) ==
    \E i \in 1..Len(d.invitation_codes) :
        /\ d.invitation_codes[i].code = code
        /\ d.invitation_codes[i].used_by = 0

\* create_user(username, password): False when the username is taken
create_user(d, username) ==
    IF \E i \in 1..Len(d.users) : d.users[i].username = username
    THEN [res |-> FALSE, db |-> d]
    ELSE [res |-> TRUE,
          db |-> [d EXCEPT !.users =
                      Append(@, [id |-> Len(d.users) + 1,
                                 username |-> username, is_admin |-> FALSE])]]

\* get_user(username)["id"]
get_user(d, username) ==
    (CHOOSE u \in {d.users[i] : i \in 1..Len(d.users)} :
        u.username = username).id

\* use_invitation_code as it would be if it left the code unmarked
use_invitation_code_NotMarked(d, code, user_id) == d

\* UPDATE invitation_codes SET used_by = ? WHERE code = ? AND used_by IS NULL
use_invitation_code(d, code, user_id) ==
    [d EXCEPT !.invitation_codes =
        [i \in 1..Len(@) |->
            IF @[i].code = code /\ @[i].used_by = 0
            THEN [@[i] EXCEPT !.used_by = user_id] ELSE @[i]]]

\* register after create_user, made being what create_user returned
Registered(made, username, code) ==
    IF made.res
    THEN [res |-> Ok("Utilisateur cree avec succes"),
          db |-> use_invitation_code(made.db, code,
                                     get_user(made.db, username))]
    ELSE [res |-> Err("Nom d'utilisateur deja pris"), db |-> made.db]

\* POST /auth/register
register(d, username, code) ==
    IF ~verify_invitation_code(d, code)
    THEN [res |-> Err("Code d'invitation invalide ou deja utilise"), db |-> d]
    ELSE Registered(create_user(d, username), username, code)

InitRegister ==
    /\ engine = NoEngine
    /\ other = NoEngine
    /\ ballots = <<>>
    /\ chosen = <<>>
    /\ tally = NoTally
    /\ script = [name |-> "test_auth", registered |-> <<>>]
    /\ ret = NoCall
    /\ db = init_database

\* POST /auth/generate-invitation, by the administrator
GenerateInvitation ==
    /\ \E code \in Codes :
          /\ ret' = [op |-> "generate_invitation", code |-> code,
                     res |-> generate_invitation_code(db, 1, code).res]
          /\ db' = generate_invitation_code(db, 1, code).db
    /\ UNCHANGED <<engine, other, ballots, chosen, tally, script>>

\* POST /auth/register; the client keeps the requests that succeeded
Register ==
    /\ \E username \in Usernames, code \in Codes :
          /\ ret' = [op |-> "register", username |-> username, code |-> code,
                     res |-> register(db, username, code).res]
          /\ db' = register(db, username, code).db
          /\ script' = IF ret'.res.ok
                       THEN [script EXCEPT !.registered =
                                Append(@, [username |-> username,
                                           code |-> code])]
                       ELSE script
    /\ UNCHANGED <<engine, other, ballots, chosen, tally>>

NextRegister ==
    \/ GenerateInvitation
    \/ Register

SpecRegister == InitRegister /\ [][NextRegister]_vars

\* the code was presented by a registration that succeeded
CodeWasUsed(code) ==
    \E i \in 1..Len(script.registered) : script.registered[i].code = code

\* C24: after a registration with invitation code c has succeeded, every
\* later registration request that presents c is refused and creates no
\* user account, so at most one user exists per invitation code.
C24_InvitationCodesAreSingleUse ==
    /\ [](\A i, j \in 1..Len(script.registered) :
             script.registered[i].code = script.registered[j].code => i = j)
    /\ [][(ret'.op = "register" /\ CodeWasUsed(ret'.code))
          => (~ret'.res.ok /\ db'.users = db.users)]_vars

C24_Witness ==
    /\ ret.op = "register"
    /\ ~ret.res.ok
    /\ CodeWasUsed(ret.code)
    /\ \A i \in 1..Len(db.users) : db.users[i].username # ret.username

\* the value r or s that a member of a ballot's signature stands for
SignatureValue(v) == IF v.type = "str" THEN int(v.s, 16) ELSE v.n

\* the position among the caller's ballots of the j-th one stored for an
\* election
StoredAt(election_id, j) ==
    CHOOSE i \in 1..Len(ballots) :
        /\ chosen[i] = election_id
        /\ Cardinality({k \in 1..i : chosen[k] = election_id}) = j

\* C25: for every ballot b, EC or finite field, with its signature given as
\* integers or as hex strings, the ballot that get_ballots reads back after
\* store_ballot(b) has the same canonical bytes of encrypted_votes, the same
\* signature values (r, s), the same public key and the same voter_id as b,
\* and the signature is written as hex without 0x prefix.
C25_StoredBallotRoundTrips ==
    ret.op = "get_ballots" =>
        \A j \in 1..Len(ret.res.val) :
            LET b == ballots[StoredAt(ret.election_id, j)]
                row == RowsOf(db.ballots, ret.election_id)[j]
                read == ret.res.val[j]
            IN  /\ BallotMessage(b.use_ec, read.encrypted_votes)
                      = BallotMessage(b.use_ec, b.encrypted_votes)
                /\ read.signature = <<SignatureValue(b.signature[1]),
                                      SignatureValue(b.signature[2])>>
                /\ read.public_key = b.public_key
                /\ read.voter_id = b.voter_id
                /\ row.signature = <<hex(SignatureValue(b.signature[1])),
                                     hex(SignatureValue(b.signature[2]))>>

(***************************************************************************)
(* The tally as the fold of the ciphertexts under the group operation.     *)
(***************************************************************************)
RECURSIVE GroupFold(_, _, _)
GroupFold(use_ec, i, passed) ==
    IF passed = <<>>
    THEN IF use_ec THEN <<Neutral, Neutral>> ELSE <<1, 1>>
    ELSE LET rest == GroupFold(use_ec, i, SubSeq(passed, 1, Len(passed) - 1))
             ct == passed[Len(passed)].encrypted_votes[i]
         IN  IF use_ec
             THEN <<add(rest[1], ct[1]), add(rest[2], ct[2])>>
             ELSE <<(rest[1] * ct[1]) % PARAM_P, (rest[2] * ct[2]) % PARAM_P>>

\* C26: for every non-empty sequence of verified ballots and every slot i,
\* the tally's slot i is the sum of all the ballots' C1 and the sum of all
\* their C2 in slot i under the back-end's group operation: no ciphertext
\* is dropped or counted twice, whatever the ciphertext values are.
C26_CombineIsTheGroupFold ==
    (ret.op = "combine" /\ ret.res.ok) =>
        \A i \in Slots :
            ret.res.val[i] = GroupFold(engine.use_ec, i,
                                       Pick(ballots, ret.order))

(***************************************************************************)
(* The inputs of the nonce derivation.  rolen is the length in bytes of    *)
(* the group order; the derivation of RFC 6979 pads the private key to     *)
(* that length and reduces the hash with bits2octets.                      *)
(***************************************************************************)
SignOrder(name) == IF name = "backend/dsa" THEN PARAM_Q ELSE ORDER

rolen(q) == (bit_length(q) + 7) \div 8

\* C27: when backend sign has derived its nonce, the private key went into
\* HMAC as rolen bytes, the hash went in as bits2octets(H(M), q), and the
\* nonce that came out lies strictly between 0 and q.
C27_NonceDerivationInputs ==
    (ret.op = "sign" /\ script.name # "ecdsa") =>
        LET q == SignOrder(script.name)
        IN  /\ Len(nonce_x(script.private_key)) = rolen(q)
            /\ nonce_h1_bytes(script.message)
                   = bits2octets(int_to_bytes(H(script.message)), q,
                                 bit_length(q))
            /\ generate_nonce(script.private_key, script.message, q)
                   \in 1..(q - 1)

(***************************************************************************)
(* Signatures sign never returned.  After sign, verify is called with the  *)
(* r of a returned signature and any other s in range.                     *)
(***************************************************************************)
OtherS(name, s) == (1..(SignOrder(name) - 1)) \ {s}

\* verify(message, (r, s2), public_key) for s2 # s, called on the
\* signature that sign has just returned (verify keeps no state, so one
\* call per signature shows every outcome)
VerifyOther ==
    /\ ret.op = "sign"
    /\ \E i \in {Len(script.sigs)} :
          /\ script.sigs[i].st = "ok"
          /\ \E s2 \in OtherS(script.name, script.sigs[i].sig[2]) :
                ret' = [op |-> "verify_other",
                        signed |-> script.sigs[i].sig,
                        signature |-> <<script.sigs[i].sig[1], s2>>,
                        res |-> VerifyCall(script.name, script.message,
                                           <<script.sigs[i].sig[1], s2>>,
                                           script.public_key)]
    /\ UNCHANGED <<db, engine, other, ballots, chosen, tally, script>>

NextMalleate ==
    \/ Sign
    \/ VerifyOther

SpecMalleate == InitSign /\ [][NextMalleate]_vars

\* C28: verify accepts no pair (r, s2) whose s2 differs from the s that
\* sign returned for the message under the key pair.  The groups of the
\* model are small enough for unrelated s2 to collide by chance, so the
\* statement is checked on the one case the claim names, which does not
\* depend on the size of the group: ECDSA_verify rejects (r, ORDER - s).
C28_SignatureIsUnique ==
    (/\ ret.op = "verify_other"
     /\ script.name = "backend/ecdsa"
     /\ ret.signature[2] = ORDER - ret.signed[2])
        => ret.res # Ok(TRUE)

(***************************************************************************)
(* Ballots whose encrypted_votes were regrouped.  verify_ballot rebuilds   *)
(* the signed message from whatever vector the ballot carries: it checks   *)
(* neither the number of slots nor the range of the integers.              *)
(***************************************************************************)
RegroupKinds == {"merge", "swap"}

\* the integer whose bytes are those of a followed by those of b
Joined(a, b) == bytes_to_int(int_to_bytes(a) \o int_to_bytes(b))

\* "merge": the integers of the first two slots, taken in pairs, become the
\* integers of one slot; "swap": the first two slots change places
Regrouped(use_ec, encrypted_votes, kind) ==
    LET e1 == encrypted_votes[1]
        e2 == encrypted_votes[2]
        rest == SubSeq(encrypted_votes, 3, Len(encrypted_votes))
    IN  IF kind = "swap" THEN <<e2, e1>> \o rest
        ELSE IF use_ec
        THEN << << <<Joined(e1[1][1], e1[1][2]), Joined(e1[2][1], e1[2][2])>>,
                   <<Joined(e2[1][1], e2[1][2]), Joined(e2[2][1], e2[2][2])>>
                >> >> \o rest
        ELSE << <<Joined(e1[1], e1[2]), Joined(e2[1], e2[2])>> >> \o rest

\* forged = Ballot(regrouped, ballot.signature, ballot.voter_id)
Regroup ==
    /\ script = NoScript
    /\ \E i \in 1..Len(ballots), kind \in RegroupKinds :
          /\ ballots' = [ballots EXCEPT ![i] =
                            Ballot(Regrouped(engine.use_ec,
                                             ballots[i].encrypted_votes, kind),
                                   ballots[i].signature, ballots[i].voter_id)]
          /\ script' = [name |-> "regroup", i |-> i, kind |-> kind,
                        was |-> ballots[i].encrypted_votes]
          /\ ret' = [op |-> "regroup", i |-> i]
    /\ UNCHANGED <<db, engine, other, chosen, tally>>

NextRegroup ==
    \/ EncryptVote
    \/ Regroup
    \/ VerifyBallot

SpecRegroup == InitTamper /\ [][NextRegroup]_vars

\* C29: a ballot whose encrypted_votes differ from the vector encrypt_vote
\* signed never has the canonical bytes of that vector, so verify_ballot
\* never accepts the signature on bytes that another vector produced.
C29_CanonicalBytesAreInjective ==
    (/\ ret.op = "verify_ballot"
     /\ script.name = "regroup"
     /\ ret.i = script.i
     /\ ballots[ret.i].encrypted_votes # script.was)
    => ~(/\ BallotMessage(engine.use_ec, ballots[ret.i].encrypted_votes)
               = BallotMessage(engine.use_ec, script.was)
         /\ ret.res = Ok(TRUE))

(***************************************************************************)
(* The life of an election.  database.py keeps the status in the elections *)
(* table ('ongoing' by default); api.py reads it before computing results. *)
(* Every HTTPException raised inside the try block of a handler is caught  *)
(* by its "except Exception" and raised again with status 500.             *)
(***************************************************************************)
MaxElections == 2

\* database.py, create_election: INSERT, status takes its default
create_election(d) ==
    [res |-> Len(d.elections) + 1,
     db |-> [d EXCEPT !.elections =
                Append(@, [id |-> Len(d.elections) + 1,
                           status |-> "ongoing"])]]

\* database.py, get_election: the row of the election, if there is one
HasElection(d, election_id) ==
    \E j \in 1..Len(d.elections) : d.elections[j].id = election_id

get_election(d, election_id) ==
    d.elections[CHOOSE j \in 1..Len(d.elections) :
                    d.elections[j].id = election_id]

\* database.py, close_election: UPDATE ... WHERE id = ? AND status =
\* 'ongoing'; returns rowcount > 0
close_election(d, election_id) ==
    LET hit == {j \in 1..Len(d.elections) :
                    /\ d.elections[j].id = election_id
                    /\ d.elections[j].status = "ongoing"}
    IN  [res |-> hit # {},
         db |-> [d EXCEPT !.elections =
                    [j \in 1..Len(d.elections) |->
                        IF j \in hit
                        THEN [d.elections[j] EXCEPT !.status = "completed"]
                        ELSE d.elections[j]]]]

Completed(d, election_id) ==
    /\ HasElection(d, election_id)
    /\ get_election(d, election_id).status = "completed"

\* api.py, get_election_results, up to the construction of the engine
get_election_results(d, election_id) ==
    IF ~HasElection(d, election_id)
    THEN Err("500: 404: L'election n'existe pas")
    ELSE IF get_election(d, election_id).status # "completed"
    THEN Err("500: 400: L'election n'est pas terminee")
    ELSE ApiVotingSystem(FALSE, NUM_CANDIDATES)

\* api.py, submit_vote, up to the construction of the engine; the status
\* of the election is not read
submit_vote(d, election_id) ==
    IF ~HasElection(d, election_id)
    THEN Err("500: 404: Election non trouvee")
    ELSE ApiVotingSystem(FALSE, NUM_CANDIDATES)

CreateElection ==
    /\ Len(db.elections) < MaxElections
    /\ ret' = [op |-> "create_election", res |-> create_election(db).res]
    /\ db' = create_election(db).db
    /\ UNCHANGED <<engine, other, ballots, chosen, tally, script>>

CloseElection ==
    /\ \E election_id \in ElectionIds :
          /\ ret' = [op |-> "close_election", election_id |-> election_id,
                     res |-> close_election(db, election_id).res]
          /\ db' = close_election(db, election_id).db
    /\ UNCHANGED <<engine, other, ballots, chosen, tally, script>>

GetElectionResults ==
    /\ \E election_id \in ElectionIds :
          ret' = [op |-> "results", election_id |-> election_id,
                  res |-> get_election_results(db, election_id)]
    /\ UNCHANGED <<db, engine, other, ballots, chosen, tally, script>>

\* api.py, submit_vote, for an election of the table
SubmitVoteFor ==
    /\ \E election_id \in ElectionIds :
          ret' = [op |-> "submit_vote", election_id |-> election_id,
                  res |-> submit_vote(db, election_id)]
    /\ UNCHANGED <<db, engine, other, ballots, chosen, tally, script>>

NextLifecycle ==
    \/ CreateElection
    \/ CloseElection
    \/ StoreBallot
    \/ GetBallots
    \/ GetElectionResults
    \/ SubmitVoteFor

SpecLifecycle == InitStore /\ [][NextLifecycle]_vars

\* C30: a completed election stays completed, and closing it again returns
\* False and changes nothing; results are computed only for a completed
\* election; and no step changes the ballots of a completed election.
C30_LifecycleIsMonotone ==
    [][/\ \A e \in ElectionIds : Completed(db, e) => Completed(db', e)
       /\ (ret'.op = "close_election" /\ Completed(db, ret'.election_id))
              => (ret'.res = FALSE /\ db' = db)
       /\ (ret'.op = "results" /\ ret'.res.ok)
              => Completed(db, ret'.election_id)
       /\ \A e \in ElectionIds :
              Completed(db, e) => get_ballots(db', e) = get_ballots(db, e)
      ]_vars
=============================================================================
